---- MODULE Spec2Model ----
(***************************************************************************)
(* OrchestraTerm: the engine state store (src/src/engine.rs) and the       *)
(* connection handler of the TCP server (src/src/server.rs).               *)
(*                                                                         *)
(* Every store method is an operator from the store value and the call's   *)
(* arguments to a result record [st, ok, err, ret, panic]: st is the store *)
(* after the call, ok/err the Result, ret the returned value.  Vec fields  *)
(* are sequences in insertion order, Option<T> is <<>> (None) or <<x>>     *)
(* (Some(x)).  Display strings that no method reads (member name and      *)
(* model, task title, message text and priority) are left out of the      *)
(* records; f64 costs are counted in whole units; now_unix_secs() is the   *)
(* single instant Now.                                                     *)
(***************************************************************************)
EXTENDS Integers, Sequences, FiniteSets, TLC

\* ------------------------------------------------------------------ bounds
MaxTeams    == 2   \* teams alive at once (profile "admin")
MaxMembers  == 2   \* members ever created in a team (cap of next_member_id)
MaxTasks    == 3   \* tasks ever created in a team (profiles "dependencies", "scan")
FewTasks    == 2   \* tasks ever created in a team (the other profiles)
GateTasks   == 1   \* tasks ever created in a team (profile "gates")
MaxMessages == 2   \* messages ever posted in a team (cap of next_message_id)
TokenBits   == 2   \* width the u64 usage counters are modelled with
MaxRequests == 2   \* request lines a client sends on one connection
NumConns    == 2   \* connections the server accepts
F64Max      == 3   \* the largest finite cost: the value that stands for f64::MAX

TeamIds      == {"t1", "t2"}
SessionNames == {"default", "dev"}
Conns        == 1..NumConns

\* u64 arithmetic: the counters of TeamTask / MemberState (engine.rs 752-754, 795-797)
U64Modulus == 2 ^ TokenBits
U64Max     == U64Modulus - 1

None == <<>>
Some(x) == <<x>>

Now == 1

\* ------------------------------------------------------------------ paths
\* A path is a sequence of one-character strings, so that trim() and
\* to_ascii_lowercase() are computed and not assumed.
IsSpace(c) == c = " "

ToAsciiLowercaseChar(c) ==
    CASE c = "A" -> "a"
      [] c = "B" -> "b"
      [] OTHER   -> c

to_ascii_lowercase(s) == [i \in 1..Len(s) |-> ToAsciiLowercaseChar(s[i])]

RECURSIVE TrimStart(_)
TrimStart(s) == IF s # <<>> /\ IsSpace(Head(s)) THEN TrimStart(Tail(s)) ELSE s

RECURSIVE TrimEnd(_)
TrimEnd(s) ==
    IF s # <<>> /\ IsSpace(s[Len(s)]) THEN TrimEnd(SubSeq(s, 1, Len(s) - 1)) ELSE s

trim(s) == TrimEnd(TrimStart(s))

\* faulty variant: the paths are compared as written, without trim and lowercase
NormalizePath_raw(s) == s

\* s.trim().to_ascii_lowercase()
NormalizePath(s) == to_ascii_lowercase(trim(s))

PathLower  == <<"a">>
PathUpper  == <<"A", " ">>
PathBlank  == <<" ">>
PathOther  == <<"b">>

\* ------------------------------------------------------------------ results
Ok(st, ret)    == [st |-> st, ok |-> TRUE,  err |-> "",  ret |-> ret, panic |-> FALSE]
Err(st, e)     == [st |-> st, ok |-> FALSE, err |-> e,   ret |-> None, panic |-> FALSE]
Panic(st)      == [st |-> st, ok |-> FALSE, err |-> "panic", ret |-> None, panic |-> TRUE]

\* position of the first element with the given id, 0 when there is none
RECURSIVE PositionFrom(_, _, _)
PositionFrom(seq, id, i) ==
    IF i > Len(seq) THEN 0
    ELSE IF seq[i].id = id THEN i
    ELSE PositionFrom(seq, id, i + 1)

Position(seq, id) == PositionFrom(seq, id, 1)

Ids(seq) == {seq[i].id : i \in 1..Len(seq)}

\* ------------------------------------------------------------------ engine
\* impl Default for EngineState: one session "default", active, no teams.
\* A SessionState is fully determined by its name (one window, one pane), so
\* the sessions map is modelled by its key set.
DefaultEngineState ==
    [sessions |-> {"default"}, active_session |-> Some("default"),
     teams |-> [k \in {} |-> None]]

HasTeam(st, team_id) == team_id \in DOMAIN st.teams

PutTeam(st, team_id, team) ==
    [st EXCEPT !.teams = [k \in (DOMAIN st.teams) \cup {team_id} |->
                             IF k = team_id THEN team ELSE st.teams[k]]]

DropTeam(st, team_id) ==
    [st EXCEPT !.teams = [k \in (DOMAIN st.teams) \ {team_id} |-> st.teams[k]]]

\* faulty variant: a call on an unknown team is silently accepted
UnknownTeam_accepted(st) == Ok(st, None)

\* .ok_or_else(|| anyhow!("unknown team: {team_id}"))?
UnknownTeam(st) == Err(st, "unknown team")

create_session(st, name) ==
    IF name \in st.sessions THEN st
    ELSE [st EXCEPT !.sessions = @ \cup {name}, !.active_session = Some(name)]

list_sessions(st) == st.sessions

set_active_session(st, name) ==
    IF name \in st.sessions THEN [st EXCEPT !.active_session = Some(name)] ELSE st

find_member(team, member_id) == Position(team.members, member_id)

\* faulty variant: the status of the member is not looked at
ensure_member_active_any(member) == TRUE

ensure_member_active(member) == member.status = "active"

ensure_member_allowed_to_execute(team, member) ==
    ~(team.delegation_only /\ member.is_lead)

\* faulty variant: the plan gate lets every member through
ensure_plan_gate_open(member) == TRUE

ensure_plan_gate(member) ==
    ~(member.require_plan_approval /\ member.plan_status # "approved")

\* the normalized, non-empty touched files of a candidate task
CandidateFiles(task) ==
    {NormalizePath(task.touched_files[i]) : i \in 1..Len(task.touched_files)} \ {<<>>}

has_file_conflict(team, candidate_idx) ==
    LET candidate == team.tasks[candidate_idx]
        cand == CandidateFiles(candidate)
    IN  IF candidate.touched_files = <<>> THEN FALSE
        ELSE IF cand = {} THEN FALSE
        ELSE \E idx \in 1..Len(team.tasks) :
                /\ idx # candidate_idx
                /\ team.tasks[idx].status = "in_progress"
                /\ \E p \in 1..Len(team.tasks[idx].touched_files) :
                      NormalizePath(team.tasks[idx].touched_files[p]) \in cand

\* faulty variant: the refresh recomputes the status of a task in progress too
RefreshedTask_reopens_running(task, done) ==
    LET blocked == \E k \in 1..Len(task.deps) : task.deps[k] \notin done
        next_status == IF blocked THEN "blocked" ELSE "pending"
    IN  IF task.status = "done" THEN task
        ELSE [task EXCEPT !.status = next_status]

\* faulty variant: a blocked task is never looked at again
RefreshedTask_never_unblocks(task, done) ==
    IF task.status \in {"in_progress", "done", "blocked"} THEN task
    ELSE IF \E k \in 1..Len(task.deps) : task.deps[k] \notin done
         THEN [task EXCEPT !.status = "blocked", !.updated_at = Now]
         ELSE task

\* The status refresh computes for a task that is neither in progress nor done.
RefreshedTask(task, done) ==
    LET blocked == \E k \in 1..Len(task.deps) : task.deps[k] \notin done
        next_status == IF blocked THEN "blocked" ELSE "pending"
    IN  IF task.status \in {"in_progress", "done"} THEN task
        ELSE IF task.status # next_status
             THEN [task EXCEPT !.status = next_status, !.updated_at = Now]
             ELSE task

\* faulty variant: the refresh forgets to recompute the statuses
refresh_task_blocking_stale(team) == [ok |-> TRUE, team |-> team]

\* [ok, team]: the loop bails at the first task with a dependency id that is
\* not a task of the team, leaving the tasks before it already refreshed.
refresh_task_blocking(team) ==
    LET done == {team.tasks[i].id : i \in {j \in 1..Len(team.tasks) :
                                              team.tasks[j].status = "done"}}
        existing_task_ids == Ids(team.tasks)
        Missing(i) == /\ team.tasks[i].status \notin {"in_progress", "done"}
                      /\ \E k \in 1..Len(team.tasks[i].deps) :
                            team.tasks[i].deps[k] \notin existing_task_ids
        bad == {i \in 1..Len(team.tasks) : Missing(i)}
        stop == IF bad = {} THEN Len(team.tasks) + 1
                ELSE CHOOSE i \in bad : \A j \in bad : i <= j
    IN  [ok   |-> bad = {},
         team |-> [team EXCEPT !.tasks =
                     [i \in 1..Len(team.tasks) |->
                        IF i < stop THEN RefreshedTask(team.tasks[i], done)
                        ELSE team.tasks[i]]]]

\* faulty variant: the team is inserted without looking for the key first
create_team_overwrite(st, team_id, mode, delegation_only) ==
    Ok(PutTeam(st, team_id,
           [id |-> team_id, mode |-> mode, delegation_only |-> delegation_only,
            recovery_policy |-> "auto_reassign",
            members |-> <<>>, tasks |-> <<>>, messages |-> <<>>,
            next_member_id |-> 0, next_task_id |-> 0, next_message_id |-> 0]),
       None)

create_team(st, team_id, mode, delegation_only) ==
    IF HasTeam(st, team_id) THEN Err(st, "team already exists")
    ELSE Ok(PutTeam(st, team_id,
                [id |-> team_id, mode |-> mode, delegation_only |-> delegation_only,
                 recovery_policy |-> "auto_reassign",
                 members |-> <<>>, tasks |-> <<>>, messages |-> <<>>,
                 next_member_id |-> 0, next_task_id |-> 0, next_message_id |-> 0]),
            None)

\* faulty variant: the id of a new member is its position in the member list
AllocMemberId_by_len(team) == Len(team.members)

\* line 163: the id a new member gets
AllocMemberId(team) == team.next_member_id

add_member(st, team_id, require_plan_approval, is_lead) ==
    IF ~HasTeam(st, team_id) THEN UnknownTeam(st)
    ELSE LET team == st.teams[team_id]
             member == [id |-> AllocMemberId(team),
                        is_lead |-> is_lead,
                        status |-> "active",
                        terminated_at |-> None,
                        termination_reason |-> None,
                        require_plan_approval |-> require_plan_approval,
                        plan_status |-> IF require_plan_approval THEN "planning"
                                        ELSE "approved",
                        latest_plan |-> None,
                        plan_updated_at |-> None,
                        input_tokens |-> 0, output_tokens |-> 0, cost_usd |-> 0]
         IN  Ok(PutTeam(st, team_id,
                    [team EXCEPT !.next_member_id = @ + 1,
                                 !.members = Append(@, member)]),
                Some(member))

\* faulty variant: the dependency ids are not validated before the task is pushed
UnknownDependency_skipped(team, deps) == FALSE

\* faulty variant: the id the new task is about to get passes as a dependency
UnknownDependency_allows_own_id(team, deps) ==
    \E k \in 1..Len(deps) : deps[k] \notin Ids(team.tasks) \cup {team.next_task_id}

\* lines 199-203: some dependency id is not the id of a task of the team
UnknownDependency(team, deps) == \E k \in 1..Len(deps) : deps[k] \notin Ids(team.tasks)

\* faulty variant: the new task is pushed as pending and the statuses are not
\* refreshed
add_task_unrefreshed(st, team_id, deps, touched_files) ==
    IF ~HasTeam(st, team_id) THEN UnknownTeam(st)
    ELSE LET team == st.teams[team_id]
         IN  IF UnknownDependency(team, deps)
             THEN Err(st, "unknown dependency task id")
             ELSE LET task == [id |-> team.next_task_id,
                               status |-> "pending",
                               assignee |-> None,
                               deps |-> deps,
                               touched_files |-> touched_files,
                               input_tokens |-> 0, output_tokens |-> 0, cost_usd |-> 0,
                               created_at |-> Now, updated_at |-> Now]
                  IN  Ok(PutTeam(st, team_id,
                             [team EXCEPT !.next_task_id = @ + 1,
                                          !.tasks = Append(@, task)]),
                         Some(task))

add_task(st, team_id, deps, touched_files) ==
    IF ~HasTeam(st, team_id) THEN UnknownTeam(st)
    ELSE LET team == st.teams[team_id]
         IN  IF UnknownDependency(team, deps)
             THEN Err(st, "unknown dependency task id")
             ELSE LET task == [id |-> team.next_task_id,
                               status |-> "pending",
                               assignee |-> None,
                               deps |-> deps,
                               touched_files |-> touched_files,
                               input_tokens |-> 0, output_tokens |-> 0, cost_usd |-> 0,
                               created_at |-> Now, updated_at |-> Now]
                      pushed == [team EXCEPT !.next_task_id = @ + 1,
                                             !.tasks = Append(@, task)]
                      r == refresh_task_blocking(pushed)
                      st2 == PutTeam(st, team_id, r.team)
                  IN  IF ~r.ok THEN Err(st2, "missing dependency")
                      ELSE Ok(st2, Some(r.team.tasks[Position(r.team.tasks, task.id)]))

submit_plan(st, team_id, member_id, plan) ==
    IF ~HasTeam(st, team_id) THEN UnknownTeam(st)
    ELSE LET team == st.teams[team_id]
             i == find_member(team, member_id)
         IN  IF i = 0 THEN Err(st, "unknown member id")
             ELSE IF ~ensure_member_active(team.members[i])
             THEN Err(st, "member is not active")
             ELSE Ok(PutTeam(st, team_id,
                        [team EXCEPT !.members[i].latest_plan = Some(plan),
                                     !.members[i].plan_updated_at = Some(Now),
                                     !.members[i].plan_status = "planning"]),
                     None)

\* the member gates shared by claim_task and auto_claim_next_task: "" when passed
MemberGate(team, member_id) ==
    LET i == find_member(team, member_id)
    IN  IF i = 0 THEN "unknown member id"
        ELSE IF ~ensure_member_active(team.members[i]) THEN "member is not active"
        ELSE IF ~ensure_member_allowed_to_execute(team, team.members[i])
        THEN "delegation-only mode"
        ELSE IF ~ensure_plan_gate(team.members[i]) THEN "plan approval required"
        ELSE ""

claim_task(st, team_id, member_id, task_id) ==
    IF ~HasTeam(st, team_id) THEN UnknownTeam(st)
    ELSE LET team == st.teams[team_id]
             gate == MemberGate(team, member_id)
         IN  IF gate # "" THEN Err(st, gate)
             ELSE LET r == refresh_task_blocking(team)
                      st2 == PutTeam(st, team_id, r.team)
                      task_idx == Position(r.team.tasks, task_id)
                  IN  IF ~r.ok THEN Err(st2, "missing dependency")
                      ELSE IF task_idx = 0 THEN Err(st2, "unknown task id")
                      ELSE IF r.team.tasks[task_idx].status # "pending"
                      THEN Err(st2, "task is not pending")
                      ELSE IF has_file_conflict(r.team, task_idx)
                      THEN Err(st2, "file conflict")
                      ELSE Ok(PutTeam(st, team_id,
                                 [r.team EXCEPT !.tasks[task_idx].status = "in_progress",
                                                !.tasks[task_idx].assignee = Some(member_id),
                                                !.tasks[task_idx].updated_at = Now]),
                              None)

\* index of the first pending task without file conflict, 0 when there is none
\* faulty variant: the scan takes the first pending task, conflict or not
RECURSIVE FirstClaimable_any_pending(_, _)
FirstClaimable_any_pending(team, idx) ==
    IF idx > Len(team.tasks) THEN 0
    ELSE IF team.tasks[idx].status # "pending"
    THEN FirstClaimable_any_pending(team, idx + 1)
    ELSE idx

RECURSIVE FirstClaimable(_, _)
FirstClaimable(team, idx) ==
    IF idx > Len(team.tasks) THEN 0
    ELSE IF team.tasks[idx].status # "pending" THEN FirstClaimable(team, idx + 1)
    ELSE IF has_file_conflict(team, idx) THEN FirstClaimable(team, idx + 1)
    ELSE idx

auto_claim_next_task(st, team_id, member_id) ==
    IF ~HasTeam(st, team_id) THEN UnknownTeam(st)
    ELSE LET team == st.teams[team_id]
             gate == MemberGate(team, member_id)
         IN  IF gate # "" THEN Err(st, gate)
             ELSE LET r == refresh_task_blocking(team)
                      st2 == PutTeam(st, team_id, r.team)
                      idx == FirstClaimable(r.team, 1)
                  IN  IF ~r.ok THEN Err(st2, "missing dependency")
                      ELSE IF idx = 0 THEN Ok(st2, None)
                      ELSE Ok(PutTeam(st, team_id,
                                 [r.team EXCEPT !.tasks[idx].status = "in_progress",
                                                !.tasks[idx].assignee = Some(member_id),
                                                !.tasks[idx].updated_at = Now]),
                              Some(r.team.tasks[idx].id))

\* u64 `+=`: with overflow checks (debug profile) an overflowing sum panics,
\* without them (release profile) it wraps.
Overflows(a, b) == a + b > U64Max
WrappingAdd(a, b) == (a + b) % U64Modulus

\* cost_usd.max(0.0)
ClampCost(cost_usd) == IF cost_usd < 0 THEN 0 ELSE cost_usd

\* f64 `+=` on the cost counters: the finite costs are 0..F64Max (F64Max
\* stands for f64::MAX), a sum above it is +infinity, and infinity stays
F64Inf == F64Max + 1
F64Add(a, b) == IF a + b > F64Max THEN F64Inf ELSE a + b

complete_task(st, team_id, member_id, task_id, input_tokens, output_tokens, cost_usd, overflow_checks) ==
    IF ~HasTeam(st, team_id) THEN UnknownTeam(st)
    ELSE LET team == st.teams[team_id]
             mi == find_member(team, member_id)
             ti == Position(team.tasks, task_id)
         IN  IF mi = 0 THEN Err(st, "unknown member id")
             ELSE IF ~ensure_member_active(team.members[mi])
             THEN Err(st, "member is not active")
             ELSE IF ti = 0 THEN Err(st, "unknown task id")
             ELSE IF team.tasks[ti].status # "in_progress"
             THEN Err(st, "task is not in progress")
             ELSE IF team.tasks[ti].assignee # Some(member_id)
             THEN Err(st, "member is not assignee")
             ELSE
               LET task == team.tasks[ti]
                   member == team.members[mi]
                   \* lines 307-308
                   a == [team EXCEPT !.tasks[ti].status = "done",
                                     !.tasks[ti].updated_at = Now]
                   \* line 309
                   b == [a EXCEPT !.tasks[ti].input_tokens =
                                       WrappingAdd(@, input_tokens)]
                   \* lines 310-311
                   c == [b EXCEPT !.tasks[ti].output_tokens =
                                       WrappingAdd(@, output_tokens),
                                  !.tasks[ti].cost_usd = F64Add(@, ClampCost(cost_usd))]
                   \* line 314
                   d == [c EXCEPT !.members[mi].input_tokens =
                                       WrappingAdd(@, input_tokens)]
                   \* lines 315-316
                   e == [d EXCEPT !.members[mi].output_tokens =
                                       WrappingAdd(@, output_tokens),
                                  !.members[mi].cost_usd = F64Add(@, ClampCost(cost_usd))]
                   r == refresh_task_blocking(e)
               IN  IF overflow_checks /\ Overflows(task.input_tokens, input_tokens)
                   THEN Panic(PutTeam(st, team_id, a))
                   ELSE IF overflow_checks /\ Overflows(task.output_tokens, output_tokens)
                   THEN Panic(PutTeam(st, team_id, b))
                   ELSE IF overflow_checks /\ Overflows(member.input_tokens, input_tokens)
                   THEN Panic(PutTeam(st, team_id, c))
                   ELSE IF overflow_checks /\ Overflows(member.output_tokens, output_tokens)
                   THEN Panic(PutTeam(st, team_id, d))
                   ELSE IF ~r.ok THEN Err(PutTeam(st, team_id, r.team), "missing dependency")
                   ELSE Ok(PutTeam(st, team_id, r.team), None)

set_plan_status(st, team_id, member_id, status) ==
    IF ~HasTeam(st, team_id) THEN UnknownTeam(st)
    ELSE LET team == st.teams[team_id]
             i == find_member(team, member_id)
         IN  IF i = 0 THEN Err(st, "unknown member id")
             ELSE IF ~ensure_member_active(team.members[i])
             THEN Err(st, "member is not active")
             ELSE Ok(PutTeam(st, team_id,
                        [team EXCEPT !.members[i].plan_status = status,
                                     !.members[i].plan_updated_at = Some(Now)]),
                     None)

set_delegation_only(st, team_id, delegation_only) ==
    IF ~HasTeam(st, team_id) THEN UnknownTeam(st)
    ELSE Ok(PutTeam(st, team_id,
               [st.teams[team_id] EXCEPT !.delegation_only = delegation_only]), None)

set_team_mode(st, team_id, mode) ==
    IF ~HasTeam(st, team_id) THEN UnknownTeam(st)
    ELSE Ok(PutTeam(st, team_id, [st.teams[team_id] EXCEPT !.mode = mode]), None)

set_recovery_policy(st, team_id, recovery_policy) ==
    IF ~HasTeam(st, team_id) THEN UnknownTeam(st)
    ELSE Ok(PutTeam(st, team_id,
               [st.teams[team_id] EXCEPT !.recovery_policy = recovery_policy]), None)

\* faulty variant: a task released by remove_member is closed as done
RecoveryStatus_done(recovery_policy) == "done"

\* the status remove_member gives a released task (lines 430-433)
RecoveryStatus(recovery_policy) ==
    IF recovery_policy = "auto_reassign" THEN "pending" ELSE "blocked"

\* faulty variant: a released task gets its recovery status and keeps its
\* assignee
remove_member_keeps_assignee(st, team_id, member_id, reason) ==
    IF ~HasTeam(st, team_id) THEN UnknownTeam(st)
    ELSE LET team == st.teams[team_id]
             i == find_member(team, member_id)
         IN  IF i = 0 THEN Err(st, "unknown member id")
             ELSE
               LET Release(task) ==
                       IF task.assignee = Some(member_id) /\ task.status # "done"
                       THEN [task EXCEPT !.updated_at = Now,
                                         !.status = RecoveryStatus(team.recovery_policy)]
                       ELSE task
                   released ==
                       [team EXCEPT !.members[i].status = "terminated",
                                    !.members[i].terminated_at = Some(Now),
                                    !.members[i].termination_reason = Some(reason),
                                    !.tasks = [k \in 1..Len(team.tasks) |->
                                                  Release(team.tasks[k])]]
                   r == refresh_task_blocking(released)
               IN  IF ~r.ok THEN Err(PutTeam(st, team_id, r.team), "missing dependency")
                   ELSE Ok(PutTeam(st, team_id, r.team), None)

remove_member(st, team_id, member_id, reason) ==
    IF ~HasTeam(st, team_id) THEN UnknownTeam(st)
    ELSE LET team == st.teams[team_id]
             i == find_member(team, member_id)
         IN  IF i = 0 THEN Err(st, "unknown member id")
             ELSE
               LET Release(task) ==
                       IF task.assignee = Some(member_id) /\ task.status # "done"
                       THEN [task EXCEPT !.assignee = None,
                                         !.updated_at = Now,
                                         !.status = RecoveryStatus(team.recovery_policy)]
                       ELSE task
                   released ==
                       [team EXCEPT !.members[i].status = "terminated",
                                    !.members[i].terminated_at = Some(Now),
                                    !.members[i].termination_reason = Some(reason),
                                    !.tasks = [k \in 1..Len(team.tasks) |->
                                                  Release(team.tasks[k])]]
                   r == refresh_task_blocking(released)
               IN  IF ~r.ok THEN Err(PutTeam(st, team_id, r.team), "missing dependency")
                   ELSE Ok(PutTeam(st, team_id, r.team), None)

\* faulty variant: the restarted member starts over, its plan state and its
\* usage counters reset
restart_member_fresh(st, team_id, member_id) ==
    IF ~HasTeam(st, team_id) THEN UnknownTeam(st)
    ELSE LET team == st.teams[team_id]
             i == find_member(team, member_id)
         IN  IF i = 0 THEN Err(st, "unknown member id")
             ELSE Ok(PutTeam(st, team_id,
                        [team EXCEPT !.members[i].status = "active",
                                     !.members[i].terminated_at = None,
                                     !.members[i].termination_reason = None,
                                     !.members[i].latest_plan = None,
                                     !.members[i].input_tokens = 0]),
                     None)

restart_member(st, team_id, member_id) ==
    IF ~HasTeam(st, team_id) THEN UnknownTeam(st)
    ELSE LET team == st.teams[team_id]
             i == find_member(team, member_id)
         IN  IF i = 0 THEN Err(st, "unknown member id")
             ELSE Ok(PutTeam(st, team_id,
                        [team EXCEPT !.members[i].status = "active",
                                     !.members[i].terminated_at = None,
                                     !.members[i].termination_reason = None]),
                     None)

cleanup_team(st, team_id) ==
    IF ~HasTeam(st, team_id) THEN UnknownTeam(st)
    ELSE Ok(DropTeam(st, team_id), None)

\* faulty variant: the members are pruned, the read-by sets are left alone
prune_terminated_members_only(st, team_id) ==
    IF ~HasTeam(st, team_id) THEN UnknownTeam(st)
    ELSE LET team == st.teams[team_id]
             IsActive(m) == m.status = "active"
         IN  Ok(PutTeam(st, team_id,
                    [team EXCEPT !.members = SelectSeq(team.members, IsActive)]),
                None)

prune_terminated(st, team_id) ==
    IF ~HasTeam(st, team_id) THEN UnknownTeam(st)
    ELSE LET team == st.teams[team_id]
             IsActive(m) == m.status = "active"
             active_ids == {team.members[i].id :
                               i \in {j \in 1..Len(team.members) :
                                         IsActive(team.members[j])}}
             KeepReader(id) == id \in active_ids
         IN  Ok(PutTeam(st, team_id,
                    [team EXCEPT !.members = SelectSeq(team.members, IsActive),
                                 !.messages = [k \in 1..Len(team.messages) |->
                                     [team.messages[k] EXCEPT !.read_by =
                                         SelectSeq(team.messages[k].read_by, KeepReader)]]]),
                None)

\* faulty variant: the optional member id only has to name an existing member
OptionalActive_exists(team, opt) ==
    IF opt = None THEN ""
    ELSE IF find_member(team, opt[1]) = 0 THEN "unknown member id"
    ELSE ""

\* "" when the optional member id is absent or names an active member
OptionalActive(team, opt) ==
    IF opt = None THEN ""
    ELSE LET i == find_member(team, opt[1])
         IN  IF i = 0 THEN "unknown member id"
             ELSE IF ~ensure_member_active(team.members[i]) THEN "member is not active"
             ELSE ""

post_message(st, team_id, from_member, to_member) ==
    IF ~HasTeam(st, team_id) THEN UnknownTeam(st)
    ELSE LET team == st.teams[team_id]
             from == OptionalActive(team, from_member)
             to == OptionalActive(team, to_member)
             msg == [id |-> team.next_message_id,
                     from_member |-> from_member,
                     to_member |-> to_member,
                     created_at |-> Now,
                     read_by |-> <<>>]
         IN  IF from # "" THEN Err(st, from)
             ELSE IF to # "" THEN Err(st, to)
             ELSE Ok(PutTeam(st, team_id,
                        [team EXCEPT !.next_message_id = @ + 1,
                                     !.messages = Append(@, msg)]),
                     Some(msg))

Contains(seq, x) == \E i \in 1..Len(seq) : seq[i] = x

\* faulty variant: a viewer is shown every message it has not read
team_messages_unfiltered(st, team_id, viewer_member, unread_only) ==
    IF ~HasTeam(st, team_id) THEN UnknownTeam(st)
    ELSE LET team == st.teams[team_id]
             Shown(msg) ==
                 ~(unread_only /\ viewer_member # None
                     /\ Contains(msg.read_by, viewer_member[1]))
         IN  IF viewer_member # None /\ find_member(team, viewer_member[1]) = 0
             THEN Err(st, "unknown member id")
             ELSE Ok(st, SelectSeq(team.messages, Shown))

team_messages(st, team_id, viewer_member, unread_only) ==
    IF ~HasTeam(st, team_id) THEN UnknownTeam(st)
    ELSE LET team == st.teams[team_id]
             Visible(msg) ==
                 IF viewer_member # None
                 THEN msg.to_member = None \/ msg.to_member = viewer_member
                 ELSE TRUE
             Shown(msg) ==
                 /\ Visible(msg)
                 /\ ~(unread_only /\ viewer_member # None
                        /\ Contains(msg.read_by, viewer_member[1]))
         IN  IF viewer_member # None /\ find_member(team, viewer_member[1]) = 0
             THEN Err(st, "unknown member id")
             ELSE Ok(st, SelectSeq(team.messages, Shown))

\* faulty variant: the member id is pushed without looking for it first
mark_message_read_push(st, team_id, member_id, message_id) ==
    IF ~HasTeam(st, team_id) THEN UnknownTeam(st)
    ELSE LET team == st.teams[team_id]
             i == find_member(team, member_id)
             k == Position(team.messages, message_id)
         IN  IF i = 0 THEN Err(st, "unknown member id")
             ELSE IF ~ensure_member_active(team.members[i])
             THEN Err(st, "member is not active")
             ELSE IF k = 0 THEN Err(st, "unknown message id")
             ELSE Ok(PutTeam(st, team_id,
                        [team EXCEPT !.messages[k].read_by = Append(@, member_id)]),
                     None)

mark_message_read(st, team_id, member_id, message_id) ==
    IF ~HasTeam(st, team_id) THEN UnknownTeam(st)
    ELSE LET team == st.teams[team_id]
             i == find_member(team, member_id)
             k == Position(team.messages, message_id)
         IN  IF i = 0 THEN Err(st, "unknown member id")
             ELSE IF ~ensure_member_active(team.members[i])
             THEN Err(st, "member is not active")
             ELSE IF k = 0 THEN Err(st, "unknown message id")
             ELSE IF ~Contains(team.messages[k].read_by, member_id)
             THEN Ok(PutTeam(st, team_id,
                        [team EXCEPT !.messages[k].read_by = Append(@, member_id)]),
                     None)
             ELSE Ok(st, None)

\* the running sums of team_usage over the first n tasks; overflowed is set
\* once a u64 sum has exceeded U64Max
RECURSIVE UsageUpTo(_, _)
UsageUpTo(tasks, n) ==
    IF n = 0
    THEN [input_tokens |-> 0, output_tokens |-> 0, cost_usd |-> 0, overflowed |-> FALSE]
    ELSE LET u == UsageUpTo(tasks, n - 1)
         IN  [input_tokens  |-> WrappingAdd(u.input_tokens, tasks[n].input_tokens),
              output_tokens |-> WrappingAdd(u.output_tokens, tasks[n].output_tokens),
              cost_usd      |-> F64Add(u.cost_usd, tasks[n].cost_usd),
              overflowed    |-> \/ u.overflowed
                                \/ Overflows(u.input_tokens, tasks[n].input_tokens)
                                \/ Overflows(u.output_tokens, tasks[n].output_tokens)]

team_usage(st, team_id, overflow_checks) ==
    IF ~HasTeam(st, team_id) THEN UnknownTeam(st)
    ELSE LET team == st.teams[team_id]
             u == UsageUpTo(team.tasks, Len(team.tasks))
         IN  IF overflow_checks /\ u.overflowed THEN Panic(st)
             ELSE Ok(st, [input_tokens  |-> u.input_tokens,
                          output_tokens |-> u.output_tokens,
                          cost_usd      |-> u.cost_usd,
                          active_tasks  |->
                              Cardinality({k \in 1..Len(team.tasks) :
                                             team.tasks[k].status = "in_progress"})])

\* ------------------------------------------------------------------ persistence
\* serde_json of the store: Option is null or the value, a map is an object
\* keyed by its keys, a SessionState is the one window / one pane record
\* create_session builds.
JsonOption(opt) == IF opt = None THEN <<"null">> ELSE <<"value", opt[1]>>

FromJsonOption(j) == IF j = <<"null">> THEN None ELSE Some(j[2])

\* serde_json writes an f64 that is not finite as null, and reads an f64
\* from a number only
JsonF64(x) == IF x = F64Inf THEN <<"null">> ELSE <<"number", x>>

FromJsonF64(j) == j[2]

SessionJson(name) ==
    [name |-> name, windows |-> <<[id |-> 0, panes |-> <<[id |-> 0, cwd |-> <<"null">>]>>,
                                   active_pane |-> 0]>>, active_window |-> 0]

MemberJson(m) ==
    [m EXCEPT !.terminated_at = JsonOption(@), !.termination_reason = JsonOption(@),
              !.latest_plan = JsonOption(@), !.plan_updated_at = JsonOption(@),
              !.cost_usd = JsonF64(@)]

MemberFromJson(j) ==
    [j EXCEPT !.terminated_at = FromJsonOption(@), !.termination_reason = FromJsonOption(@),
              !.latest_plan = FromJsonOption(@), !.plan_updated_at = FromJsonOption(@),
              !.cost_usd = FromJsonF64(@)]

TaskJson(t) == [t EXCEPT !.assignee = JsonOption(@), !.cost_usd = JsonF64(@)]

TaskFromJson(j) == [j EXCEPT !.assignee = FromJsonOption(@), !.cost_usd = FromJsonF64(@)]

MessageJson(m) == [m EXCEPT !.from_member = JsonOption(@), !.to_member = JsonOption(@)]

MessageFromJson(j) ==
    [j EXCEPT !.from_member = FromJsonOption(@), !.to_member = FromJsonOption(@)]

TeamJson(team) ==
    [team EXCEPT !.members  = [i \in 1..Len(team.members)  |-> MemberJson(team.members[i])],
                 !.tasks    = [i \in 1..Len(team.tasks)    |-> TaskJson(team.tasks[i])],
                 !.messages = [i \in 1..Len(team.messages) |-> MessageJson(team.messages[i])]]

TeamFromJson(j) ==
    [j EXCEPT !.members  = [i \in 1..Len(j.members)  |-> MemberFromJson(j.members[i])],
              !.tasks    = [i \in 1..Len(j.tasks)    |-> TaskFromJson(j.tasks[i])],
              !.messages = [i \in 1..Len(j.messages) |-> MessageFromJson(j.messages[i])]]

\* serde_json::to_string_pretty(self)
Serialize(st) ==
    [json |-> TRUE,
     sessions |-> [n \in st.sessions |-> SessionJson(n)],
     active_session |-> JsonOption(st.active_session),
     teams |-> [k \in DOMAIN st.teams |-> TeamJson(st.teams[k])]]

\* serde_json::from_str(&raw)
Deserialize(doc) ==
    [sessions |-> DOMAIN doc.sessions,
     active_session |-> FromJsonOption(doc.active_session),
     teams |-> [k \in DOMAIN doc.teams |-> TeamFromJson(doc.teams[k])]]

\* a file whose content is not a JSON document of the store
CorruptDocument == [json |-> FALSE]

\* serde_json::from_str(&raw) returns Ok: the file is a JSON document of the
\* store and every f64 field of it is a number
ParsesAsStore(doc) ==
    /\ doc.json
    /\ \A k \in DOMAIN doc.teams :
          /\ \A i \in 1..Len(doc.teams[k].members) :
                doc.teams[k].members[i].cost_usd # <<"null">>
          /\ \A i \in 1..Len(doc.teams[k].tasks) :
                doc.teams[k].tasks[i].cost_usd # <<"null">>

\* faulty variant: a file that does not parse yields a store without any
\* session
load_or_default_empty(f) ==
    IF f = None THEN DefaultEngineState
    ELSE IF ~ParsesAsStore(f[1])
    THEN [sessions |-> {}, active_session |-> None, teams |-> [k \in {} |-> None]]
    ELSE Deserialize(f[1])

\* file is None (no file, or unreadable) or Some(document)
load_or_default(f) ==
    IF f = None THEN DefaultEngineState
    ELSE IF ~ParsesAsStore(f[1]) THEN DefaultEngineState
    ELSE Deserialize(f[1])

\* save(): the file after the call, for each way it can end: Ok (written) or
\* Err (create_dir_all or fs::write failed and the file is as it was)
SaveOutcomes(st, f) == {Some(Serialize(st)), f}

\* ------------------------------------------------------------------ server
\* ServerResponse::ok / ServerResponse::err; message is the kind of message
Response(ok, message) ==
    [ok |-> ok, message |-> message, sessions |-> {}, teams |-> {},
     tasks |-> <<>>, messages |-> <<>>, usage |-> None]

\* the match arms on Result: Ok(..) => ok(message), Err(err) => err(err.to_string())
Reply(r, message) ==
    [st |-> r.st, panic |-> r.panic,
     resp |-> IF r.ok THEN Response(TRUE, message) ELSE Response(FALSE, r.err)]

TeamValues(st) == {st.teams[k] : k \in DOMAIN st.teams}

\* the match of handle_client (lines 65-256): the store after the request and
\* the response built by its arm
Dispatch(st, req, overflow_checks) ==
    CASE req.type = "ping" ->
            [st |-> st, panic |-> FALSE, resp |-> Response(TRUE, "pong")]
      [] req.type = "list_sessions" ->
            [st |-> st, panic |-> FALSE,
             resp |-> [Response(TRUE, "ok") EXCEPT !.sessions = list_sessions(st)]]
      [] req.type = "create_session" ->
            [st |-> create_session(st, req.name), panic |-> FALSE,
             resp |-> Response(TRUE, "created session")]
      [] req.type = "attach_session" ->
            [st |-> set_active_session(st, req.name), panic |-> FALSE,
             resp |-> Response(TRUE, "active session")]
      [] req.type = "team_list" ->
            [st |-> st, panic |-> FALSE,
             resp |-> [Response(TRUE, "ok") EXCEPT !.teams = TeamValues(st)]]
      [] req.type = "team_create" ->
            Reply(create_team(st, req.team_id, req.mode, req.delegation_only),
                  "created team")
      [] req.type = "team_add_member" ->
            Reply(add_member(st, req.team_id, req.require_plan_approval, req.is_lead),
                  "member added")
      [] req.type = "team_add_task" ->
            LET r == add_task(st, req.team_id, req.deps, req.touched_files)
                a == Reply(r, "task added")
            IN  IF r.ok THEN [a EXCEPT !.resp.tasks = r.ret] ELSE a
      [] req.type = "team_submit_plan" ->
            Reply(submit_plan(st, req.team_id, req.member_id, req.plan), "plan submitted")
      [] req.type = "team_claim_task" ->
            Reply(claim_task(st, req.team_id, req.member_id, req.task_id), "task claimed")
      [] req.type = "team_complete_task" ->
            Reply(complete_task(st, req.team_id, req.member_id, req.task_id,
                                req.input_tokens, req.output_tokens, req.cost_usd,
                                overflow_checks),
                  "task completed")
      [] req.type = "team_set_plan_status" ->
            Reply(set_plan_status(st, req.team_id, req.member_id, req.status),
                  "member plan status updated")
      [] req.type = "team_auto_claim" ->
            LET r == auto_claim_next_task(st, req.team_id, req.member_id)
            IN  Reply(r, IF r.ret = None THEN "no claimable task" ELSE "auto-claimed task")
      [] req.type = "team_set_mode" ->
            Reply(set_team_mode(st, req.team_id, req.mode), "team mode updated")
      [] req.type = "team_set_delegation_only" ->
            Reply(set_delegation_only(st, req.team_id, req.delegation_only),
                  "delegation mode updated")
      [] req.type = "team_set_recovery_policy" ->
            Reply(set_recovery_policy(st, req.team_id, req.recovery_policy),
                  "recovery policy updated")
      [] req.type = "team_remove_member" ->
            Reply(remove_member(st, req.team_id, req.member_id, req.reason),
                  "member terminated")
      [] req.type = "team_restart_member" ->
            Reply(restart_member(st, req.team_id, req.member_id), "member restarted")
      [] req.type = "team_prune_terminated" ->
            Reply(prune_terminated(st, req.team_id), "terminated members pruned")
      [] req.type = "team_cleanup" ->
            Reply(cleanup_team(st, req.team_id), "team removed")
      [] req.type = "team_post_message" ->
            LET r == post_message(st, req.team_id, req.from_member, req.to_member)
                a == Reply(r, "message posted")
            IN  IF r.ok THEN [a EXCEPT !.resp.messages = r.ret] ELSE a
      [] req.type = "team_list_messages" ->
            LET r == team_messages(st, req.team_id, req.viewer_member, req.unread_only)
                a == Reply(r, "ok")
            IN  IF r.ok THEN [a EXCEPT !.resp.messages = r.ret] ELSE a
      [] req.type = "team_mark_message_read" ->
            Reply(mark_message_read(st, req.team_id, req.member_id, req.message_id),
                  "message marked as read")
      [] req.type = "team_usage" ->
            LET r == team_usage(st, req.team_id, overflow_checks)
                a == Reply(r, "ok")
            IN  IF r.ok THEN [a EXCEPT !.resp.usage = Some(r.ret)] ELSE a

\* faulty variant: only the session list of the envelope is refreshed
RefreshEnvelope_sessions_only(resp, st) == [resp EXCEPT !.sessions = list_sessions(st)]

\* lines 259-265: the envelope is refreshed from the store under the guard
RefreshEnvelope(resp, st) ==
    [resp EXCEPT !.sessions = list_sessions(st),
                 !.teams = IF resp.teams = {}
                           THEN TeamValues(st) ELSE resp.teams]

\* ------------------------------------------------------------------ state
VARIABLES
    state,      \* the EngineState (behind the server's Arc<Mutex<..>>)
    poisoned,   \* a store method panicked: the caller unwound / the Mutex is poisoned
    profile,    \* the input sets the behaviour draws its calls from
    lock,       \* 0, or the connection whose handler holds the MutexGuard
    file,       \* None, or Some(document) at state_file_path()
    conn,       \* per connection: the handler's position, request and responses;
                \* a handler that returned is at "closed" (end of stream),
                \* "read_error" (read_line failed),
                \* "io_error" (a socket write failed), "lock_error" (the
                \* mutex was poisoned) or "panicked"
    applied     \* the store that results from applying the requests one at a
                \* time in the order their handlers acquired the lock

vars == <<state, poisoned, profile, lock, file, conn, applied>>
server_vars == <<lock, file, conn, applied>>

MemberIds  == 0..MaxMembers
TaskIds    == 0..MaxTasks
MessageIds == 0..MaxMessages
OptMembers == {None} \cup {Some(m) : m \in MemberIds}

\* TeamDisplayMode, RecoveryPolicy, PlanStatus, TaskStatus, MemberStatus
\* (serde snake_case names)
TeamDisplayModes == {"in_process", "split_pane", "auto"}
RecoveryPolicies == {"auto_reassign", "manual"}
PlanStatuses     == {"planning", "approved", "rejected"}
TaskStatuses     == {"pending", "blocked", "in_progress", "done"}

\* require_plan_approval, is_lead
Worker == <<FALSE, FALSE>>
MemberKinds == BOOLEAN \X BOOLEAN

\* the inputs of the calls: dependency lists, touched-file lists and
\* <<input_tokens, output_tokens, cost_usd>> of a completion
AllDeps   == {<<>>, <<0>>, <<0, 1>>, <<MaxTasks>>}
AllFiles  == {<<>>, <<PathLower>>, <<PathBlank, PathUpper>>, <<PathOther>>}
AllUsages == {<<1, 0, 2>>, <<U64Max, 1, -1>>}

\* A profile bounds the inputs of one behaviour: the calls are drawn from its
\* sets, and an empty set leaves out the calls that need it.
NoProfile ==
    [name |-> "none", teams |-> {"t1"}, max_teams |-> 1, modes |-> {"auto"},
     create_delegation |-> {FALSE}, kinds |-> {}, max_tasks |-> FewTasks,
     deps |-> {}, files |-> {}, usages |-> {}, plans |-> {}, plan_statuses |-> {},
     delegation |-> {}, policies |-> {}, lifecycle |-> FALSE, set_modes |-> {},
     cleanup |-> FALSE, messages |-> {}, sessions |-> {}]

Profiles ==
    { [NoProfile EXCEPT !.name = "dependencies", !.kinds = {Worker},
          !.max_tasks = MaxTasks,
          !.deps = AllDeps, !.files = {<<>>},
          !.usages = {<<1, 0, 2>>}, !.policies = RecoveryPolicies,
          !.lifecycle = TRUE],
      [NoProfile EXCEPT !.name = "files", !.kinds = {Worker}, !.deps = {<<>>},
          !.files = AllFiles,
          !.usages = {<<1, 0, 2>>}, !.lifecycle = TRUE],
      [NoProfile EXCEPT !.name = "scan", !.kinds = {Worker}, !.max_tasks = MaxTasks,
          !.deps = {<<>>}, !.files = {<<PathLower>>, <<PathBlank, PathUpper>>, <<PathOther>>},
          !.usages = {<<1, 0, 2>>}],
      [NoProfile EXCEPT !.name = "gates", !.create_delegation = BOOLEAN,
          !.kinds = MemberKinds, !.max_tasks = GateTasks,
          !.deps = {<<>>}, !.files = {<<PathLower>>},
          !.usages = {<<1, 0, 2>>}, !.plans = {"plan"},
          !.plan_statuses = PlanStatuses, !.delegation = BOOLEAN],
      [NoProfile EXCEPT !.name = "restart", !.kinds = {<<TRUE, FALSE>>},
          !.deps = {<<>>}, !.files = {<<>>}, !.usages = {<<1, 0, 2>>},
          !.plans = {"plan"}, !.plan_statuses = PlanStatuses,
          !.policies = RecoveryPolicies, !.lifecycle = TRUE],
      [NoProfile EXCEPT !.name = "usage", !.kinds = {Worker}, !.deps = {<<>>},
          !.files = {<<>>}, !.usages = AllUsages],
      [NoProfile EXCEPT !.name = "messages", !.kinds = {Worker}, !.lifecycle = TRUE,
          !.messages = OptMembers \X OptMembers],
      [NoProfile EXCEPT !.name = "admin", !.teams = TeamIds, !.max_teams = MaxTeams,
          !.modes = TeamDisplayModes, !.create_delegation = BOOLEAN,
          !.kinds = {Worker}, !.delegation = BOOLEAN, !.policies = RecoveryPolicies,
          !.set_modes = TeamDisplayModes, !.cleanup = TRUE,
          !.sessions = SessionNames] }

Team(t) == state.teams[t]

\* A store call: its result becomes the store; a panic ends the behaviour.
Apply(r) ==
    /\ ~poisoned
    /\ state' = r.st
    /\ poisoned' = r.panic
    /\ UNCHANGED <<profile, server_vars>>

IdleConn == [pc |-> "closed", req |-> None, resp |-> None, sent |-> 0, got |-> <<>>]

Init ==
    /\ state = DefaultEngineState
    /\ poisoned = FALSE
    /\ profile \in Profiles
    /\ lock = 0
    /\ file = None
    /\ conn = [c \in Conns |-> IdleConn]
    /\ applied = state

\* ------------------------------------------------------------------ store calls
CreateTeam ==
    \E t \in profile.teams, m \in profile.modes, d \in profile.create_delegation :
        /\ HasTeam(state, t) \/ Cardinality(DOMAIN state.teams) < profile.max_teams
        /\ Apply(create_team(state, t, m, d))

AddMember ==
    \E t \in TeamIds, k \in profile.kinds :
        /\ HasTeam(state, t) => Team(t).next_member_id < MaxMembers
        /\ Apply(add_member(state, t, k[1], k[2]))

AddTask ==
    \E t \in TeamIds, d \in profile.deps, f \in profile.files :
        /\ HasTeam(state, t) => Team(t).next_task_id < profile.max_tasks
        /\ Apply(add_task(state, t, d, f))

SubmitPlan ==
    \E t \in TeamIds, m \in MemberIds, p \in profile.plans :
        Apply(submit_plan(state, t, m, p))

ClaimTask ==
    \E t \in TeamIds, m \in MemberIds, k \in TaskIds :
        /\ profile.usages # {}
        /\ Apply(claim_task(state, t, m, k))

AutoClaimNextTask ==
    \E t \in TeamIds, m \in MemberIds :
        /\ profile.usages # {}
        /\ Apply(auto_claim_next_task(state, t, m))

CompleteTask ==
    \E t \in TeamIds, m \in MemberIds, k \in TaskIds, u \in profile.usages,
       overflow_checks \in BOOLEAN :
        Apply(complete_task(state, t, m, k, u[1], u[2], u[3], overflow_checks))

SetPlanStatus ==
    \E t \in TeamIds, m \in MemberIds, s \in profile.plan_statuses :
        Apply(set_plan_status(state, t, m, s))

SetDelegationOnly ==
    \E t \in TeamIds, d \in profile.delegation :
        Apply(set_delegation_only(state, t, d))

SetTeamMode ==
    \E t \in TeamIds, m \in profile.set_modes : Apply(set_team_mode(state, t, m))

SetRecoveryPolicy ==
    \E t \in TeamIds, p \in profile.policies : Apply(set_recovery_policy(state, t, p))

RemoveMember ==
    \E t \in TeamIds, m \in MemberIds :
        /\ profile.lifecycle
        /\ Apply(remove_member(state, t, m, "reason"))

RestartMember ==
    \E t \in TeamIds, m \in MemberIds :
        /\ profile.lifecycle
        /\ Apply(restart_member(state, t, m))

CleanupTeam ==
    \E t \in TeamIds :
        /\ profile.cleanup
        /\ Apply(cleanup_team(state, t))

PruneTerminated ==
    \E t \in TeamIds :
        /\ profile.lifecycle
        /\ Apply(prune_terminated(state, t))

PostMessage ==
    \E t \in TeamIds, ft \in profile.messages :
        /\ HasTeam(state, t) => Team(t).next_message_id < MaxMessages
        /\ Apply(post_message(state, t, ft[1], ft[2]))

TeamMessages ==
    \E t \in TeamIds, v \in OptMembers, unread_only \in BOOLEAN :
        /\ profile.messages # {}
        /\ Apply(team_messages(state, t, v, unread_only))

MarkMessageRead ==
    \E t \in TeamIds, m \in MemberIds, k \in MessageIds :
        /\ profile.messages # {}
        /\ Apply(mark_message_read(state, t, m, k))

TeamUsage ==
    \E t \in TeamIds, overflow_checks \in BOOLEAN :
        /\ profile.usages # {}
        /\ Apply(team_usage(state, t, overflow_checks))

CreateSession ==
    \E n \in profile.sessions : Apply(Ok(create_session(state, n), None))

SetActiveSession ==
    \E n \in profile.sessions \cup {"nope"} :
        /\ profile.sessions # {}
        /\ Apply(Ok(set_active_session(state, n), None))

\* the calls of one member, named for the fairness conditions
AutoClaimBy(t, m) ==
    /\ profile.usages # {}
    /\ Apply(auto_claim_next_task(state, t, m))

CompleteBy(t, m) ==
    \E k \in TaskIds, u \in profile.usages, overflow_checks \in BOOLEAN :
        Apply(complete_task(state, t, m, k, u[1], u[2], u[3], overflow_checks))

Next ==
    \/ CreateTeam
    \/ AddMember
    \/ AddTask
    \/ SubmitPlan
    \/ ClaimTask
    \/ AutoClaimNextTask
    \/ CompleteTask
    \/ SetPlanStatus
    \/ SetDelegationOnly
    \/ SetTeamMode
    \/ SetRecoveryPolicy
    \/ RemoveMember
    \/ RestartMember
    \/ CleanupTeam
    \/ PruneTerminated
    \/ PostMessage
    \/ TeamMessages
    \/ MarkMessageRead
    \/ TeamUsage
    \/ CreateSession
    \/ SetActiveSession

Spec == Init /\ [][Next]_vars

\* ------------------------------------------------------------------ server steps
\* The store an earlier run of the server left in the state file: team "t1"
\* with two workers and one task.
SeedState ==
    LET a == create_team(DefaultEngineState, "t1", "auto", FALSE).st
        b == add_member(a, "t1", FALSE, FALSE).st
        c == add_member(b, "t1", FALSE, FALSE).st
    IN  add_task(c, "t1", <<>>, <<PathLower>>).st

\* a store saved by an earlier run: member 0 has completed task 0 with
\* u64::MAX input tokens and holds task 1
HotSeedState ==
    LET a == add_task(SeedState, "t1", <<>>, <<>>).st
        b == claim_task(a, "t1", 0, 0).st
        c == complete_task(b, "t1", 0, 0, U64Max, 0, 0, FALSE).st
    IN  claim_task(c, "t1", 0, 1).st

\* a store saved by an earlier run: member 0 has completed tasks 0 and 1 at
\* the largest finite cost each, and the sum of its costs is infinite
OverspentSeedState ==
    LET a == add_task(SeedState, "t1", <<>>, <<>>).st
        b == claim_task(a, "t1", 0, 0).st
        c == complete_task(b, "t1", 0, 0, 0, 0, F64Max, FALSE).st
        d == claim_task(c, "t1", 0, 1).st
    IN  complete_task(d, "t1", 0, 1, 0, 0, F64Max, FALSE).st

InitialFiles ==
    {None, Some(CorruptDocument), Some(Serialize(SeedState)),
     Some(Serialize(HotSeedState)), Some(Serialize(OverspentSeedState))}

\* a line that does not parse as a ServerRequest
Malformed == [type |-> "malformed"]

\* a line whose bytes are not valid UTF-8: BufRead::read_line returns
\* Err(InvalidData) for it
NotUtf8 == [type |-> "not_utf8"]

\* serde_json::from_str(line.trim()) returns Ok
Parses(line) == line.type \notin {"malformed", "not_utf8"}

\* the request lines the clients send
Lines ==
    { Malformed, NotUtf8,
      [type |-> "team_create", team_id |-> "t1", mode |-> "auto",
       delegation_only |-> FALSE],
      [type |-> "team_claim_task", team_id |-> "t1", member_id |-> 0, task_id |-> 0],
      [type |-> "team_claim_task", team_id |-> "t1", member_id |-> 1, task_id |-> 0],
      [type |-> "team_complete_task", team_id |-> "t1", member_id |-> 0, task_id |-> 1,
       input_tokens |-> 1, output_tokens |-> 0, cost_usd |-> 0],
      [type |-> "attach_session", name |-> "nope"] }

\* what the client keeps of a response line it received
Delivered(req, resp) == [req |-> req, ok |-> resp.ok, message |-> resp.message]

\* run_server lines 17-20: load the store, then `let _ = st.save()`
ServerInit ==
    /\ \E f \in InitialFiles :
          /\ state = load_or_default(f)
          /\ file \in SaveOutcomes(load_or_default(f), f)
    /\ poisoned = FALSE
    /\ profile = NoProfile
    /\ lock = 0
    /\ conn = [c \in Conns |-> [IdleConn EXCEPT !.pc = "read"]]
    /\ applied = state

\* read_line returned a line (lines 42-60): a line that parses goes on to
\* the lock, one that does not is answered without it; on a line that is
\* not UTF-8 read_line fails and the `?` of line 45 returns from the handler
ReadLine(c) ==
    /\ conn[c].pc = "read"
    /\ conn[c].sent < MaxRequests
    /\ \E line \in Lines :
          conn' = [conn EXCEPT ![c].sent = @ + 1,
                               ![c].req = Some(line),
                               ![c].pc = IF line = NotUtf8 THEN "read_error"
                                         ELSE IF line = Malformed THEN "invalid"
                                         ELSE "parsed"]
    /\ UNCHANGED <<state, poisoned, profile, lock, file, applied>>

\* read_line returned 0 bytes or an error (lines 43-48): the handler returns
ReadEof(c) ==
    /\ conn[c].pc = "read"
    /\ conn' = [conn EXCEPT ![c].pc = "closed"]
    /\ UNCHANGED <<state, poisoned, profile, lock, file, applied>>

\* lines 52-59: the error response of a malformed line; a failed write
\* returns from the handler
RejectLine(c) ==
    /\ conn[c].pc = "invalid"
    /\ \/ conn' = [conn EXCEPT ![c].pc = "read", ![c].req = None,
                               ![c].got = Append(@, Delivered(conn[c].req[1],
                                                      Response(FALSE, "invalid request")))]
       \/ conn' = [conn EXCEPT ![c].pc = "io_error", ![c].req = None]
    /\ UNCHANGED <<state, poisoned, profile, lock, file, applied>>

\* faulty variant: the handler enters the critical section without waiting
\* for the mutex to be free
AcquireLock_unguarded(c) ==
    /\ conn[c].pc = "parsed"
    /\ IF poisoned
       THEN /\ conn' = [conn EXCEPT ![c].pc = "lock_error", ![c].req = None]
            /\ UNCHANGED <<lock, applied>>
       ELSE /\ lock' = c
            /\ applied' = Dispatch(applied, conn[c].req[1], FALSE).st
            /\ conn' = [conn EXCEPT ![c].pc = "locked"]
    /\ UNCHANGED <<state, poisoned, profile, file>>

\* lines 62-64: state.lock() waits for the guard; on a poisoned mutex it
\* returns Err and the handler returns without a response
AcquireLock(c) ==
    /\ conn[c].pc = "parsed"
    /\ lock = 0
    /\ IF poisoned
       THEN /\ conn' = [conn EXCEPT ![c].pc = "lock_error", ![c].req = None]
            /\ UNCHANGED <<lock, applied>>
       ELSE /\ lock' = c
            /\ applied' = Dispatch(applied, conn[c].req[1], FALSE).st
            /\ conn' = [conn EXCEPT ![c].pc = "locked"]
    /\ UNCHANGED <<state, poisoned, profile, file>>

\* lines 65-256: the store call of the request; a panic unwinds the handler
\* thread, which poisons the mutex while dropping the guard
DispatchRequest(c) ==
    /\ conn[c].pc = "locked"
    /\ lock = c
    /\ \E overflow_checks \in BOOLEAN :
          LET r == Dispatch(state, conn[c].req[1], overflow_checks)
          IN  /\ state' = r.st
              /\ poisoned' = r.panic
              /\ IF r.panic
                 THEN /\ lock' = 0
                      /\ conn' = [conn EXCEPT ![c].pc = "panicked", ![c].req = None]
                 ELSE /\ lock' = lock
                      /\ conn' = [conn EXCEPT ![c].pc = "save", ![c].resp = Some(r.resp)]
    /\ UNCHANGED <<profile, file, applied>>

\* lines 258-265: `let _ = guard.save()`, then the envelope is refreshed
SaveState(c) ==
    /\ conn[c].pc = "save"
    /\ lock = c
    /\ file' \in SaveOutcomes(state, file)
    /\ conn' = [conn EXCEPT ![c].pc = "write",
                            ![c].resp = Some(RefreshEnvelope(conn[c].resp[1], state))]
    /\ UNCHANGED <<state, poisoned, profile, lock, applied>>

\* lines 267-271: the response line is written and flushed, then the guard
\* goes out of scope at the end of the loop body; a failed write returns
\* from the handler, which drops the guard as well
WriteResponse(c) ==
    /\ conn[c].pc = "write"
    /\ lock = c
    /\ lock' = 0
    /\ \/ conn' = [conn EXCEPT ![c].pc = "read", ![c].req = None, ![c].resp = None,
                               ![c].got = Append(@, Delivered(conn[c].req[1], conn[c].resp[1]))]
       \/ conn' = [conn EXCEPT ![c].pc = "io_error", ![c].req = None, ![c].resp = None]
    /\ UNCHANGED <<state, poisoned, profile, file, applied>>

\* write_all / flush of the response line (lines 268-270) blocks for as long
\* as the client does not read and the socket's send buffer is full; the
\* guard of line 62 is still in scope
StallWrite(c) ==
    /\ conn[c].pc = "write"
    /\ lock = c
    /\ conn' = [conn EXCEPT ![c].pc = "stalled"]
    /\ UNCHANGED <<state, poisoned, profile, lock, file, applied>>

ServerNext ==
    \E c \in Conns :
        \/ ReadLine(c)
        \/ ReadEof(c)
        \/ RejectLine(c)
        \/ AcquireLock(c)
        \/ DispatchRequest(c)
        \/ SaveState(c)
        \/ WriteResponse(c)
        \/ StallWrite(c)

ServerSpec == ServerInit /\ [][ServerNext]_vars

\* ------------------------------------------------------- members that poll
\* The inputs of a team worked by its members: workers and leads in teams
\* created with or without delegation-only, tasks with and without a
\* dependency, both usages, members removed, restarted and pruned.
WorkProfile ==
    [NoProfile EXCEPT !.name = "work", !.kinds = {Worker, <<TRUE, FALSE>>},
        !.create_delegation = BOOLEAN, !.deps = {<<>>, <<0>>},
        !.files = {<<>>}, !.usages = AllUsages, !.lifecycle = TRUE]

\* the members a team of the profile can get
Workers == 0..(MaxMembers - 1)

WorkerInit ==
    /\ state = DefaultEngineState
    /\ poisoned = FALSE
    /\ profile = WorkProfile
    /\ lock = 0
    /\ file = None
    /\ conn = [c \in Conns |-> IdleConn]
    /\ applied = state

WorkerNext ==
    \/ CreateTeam
    \/ AddMember
    \/ AddTask
    \/ ClaimTask
    \/ AutoClaimNextTask
    \/ CompleteTask
    \/ RemoveMember
    \/ RestartMember
    \/ PruneTerminated

\* A member whose auto_claim_next_task could claim a task again and again
\* does claim one, and a member that holds a task it can complete completes
\* one.
WorkerSpec ==
    /\ WorkerInit /\ [][WorkerNext]_vars
    /\ \A t \in WorkProfile.teams : \A m \in Workers :
          /\ SF_vars(AutoClaimBy(t, m))
          /\ WF_vars(CompleteBy(t, m))

\* Fair scheduling of the handler threads (std::thread::spawn, server.rs 27):
\* a handler that can run its store call, its save or its socket write does
\* so, and a handler that waits for the mutex gets it if it is free again
\* and again. Nothing is assumed of the clients: they may stop sending
\* (no ReadLine) and stop reading (StallWrite).
FairServerSpec ==
    /\ ServerSpec
    /\ \A c \in Conns :
          /\ SF_vars(AcquireLock(c))
          /\ WF_vars(DispatchRequest(c))
          /\ WF_vars(SaveState(c))
          /\ WF_vars(WriteResponse(c))
          /\ WF_vars(RejectLine(c))

\* ------------------------------------------------------------------ properties
Teams == DOMAIN state.teams

TaskIdx(team) == 1..Len(team.tasks)
MemberIdx(team) == 1..Len(team.members)

\* the tasks of a store value by id (a task id occurs once, see C9)
TaskById(st, t, k) == st.teams[t].tasks[Position(st.teams[t].tasks, k)]
MemberById(st, t, m) == st.teams[t].members[Position(st.teams[t].members, m)]

HasTask(st, t, k) == HasTeam(st, t) /\ Position(st.teams[t].tasks, k) # 0
HasMember(st, t, m) == HasTeam(st, t) /\ Position(st.teams[t].members, m) # 0

Open(task) == task.status \notin {"in_progress", "done"}

\* some dependency id of the task belongs to a task that is not done
HasOpenDependency(team, task) ==
    \E d \in 1..Len(task.deps) : \E j \in TaskIdx(team) :
        team.tasks[j].id = task.deps[d] /\ team.tasks[j].status # "done"

\* the step is a successful complete_task of task k of team t
CompletesTask(t, k) ==
    \E m \in MemberIds, u \in profile.usages, oc \in BOOLEAN :
        LET r == complete_task(state, t, m, k, u[1], u[2], u[3], oc)
        IN  r.ok /\ state' = r.st

\* C1, in every state a completed operation leaves: a task that is neither in
\* progress nor done is blocked if one of its dependencies is not done and
\* pending otherwise.
C1_StatusFollowsDependencies ==
    ~poisoned =>
        \A t \in Teams : \A i \in TaskIdx(Team(t)) :
            LET task == Team(t).tasks[i]
            IN  Open(task) =>
                   task.status = IF HasOpenDependency(Team(t), task)
                                 THEN "blocked" ELSE "pending"

\* C1, in every step: a blocked task becomes pending only in a step that is
\* a successful complete_task of one of its dependencies, which was the last
\* of them that was not done.
C1_UnblockedByLastDependency ==
    \A t \in Teams : \A i \in TaskIdx(Team(t)) :
        LET task == Team(t).tasks[i]
        IN  (/\ task.status = "blocked"
             /\ t \in DOMAIN state'.teams
             /\ Len(state'.teams[t].tasks) >= i
             /\ state'.teams[t].tasks[i].status = "pending")
            => \E d \in 1..Len(task.deps) :
                  /\ CompletesTask(t, task.deps[d])
                  /\ \A e \in 1..Len(task.deps) :
                        task.deps[e] # task.deps[d]
                            => TaskById(state, t, task.deps[e]).status = "done"

\* C1: the status of a task that is neither in progress nor done is Blocked
\* iff a dependency is not Done and Pending otherwise, and a Blocked task
\* becomes Pending exactly when complete_task finishes its last open dependency.
C1_Blocking == [](C1_StatusFollowsDependencies) /\ [][C1_UnblockedByLastDependency]_vars

\* C1 witness: a task with two dependencies is pending, both being done,
\* beside a done task: the completions have unblocked it.
C1_Witness ==
    /\ ~poisoned
    /\ \E t \in Teams : \E i \in TaskIdx(Team(t)) :
          /\ Team(t).tasks[i].status = "pending"
          /\ Len(Team(t).tasks[i].deps) = 2
          /\ \A d \in 1..2 : TaskById(state, t, Team(t).tasks[i].deps[d]).status = "done"

\* the touched files of a task after normalization, empty entries dropped
NormalizedFiles(task) ==
    {to_ascii_lowercase(trim(task.touched_files[i])) :
        i \in 1..Len(task.touched_files)} \ {<<>>}

SharesFile(a, b) == NormalizedFiles(a) \cap NormalizedFiles(b) # {}

\* the conditions C2 lists for claim_task(t, m, k), read in the state st
ClaimAllowed(st, t, m, k) ==
    /\ HasMember(st, t, m)
    /\ MemberById(st, t, m).status = "active"
    /\ ~(st.teams[t].delegation_only /\ MemberById(st, t, m).is_lead)
    /\ \/ ~MemberById(st, t, m).require_plan_approval
       \/ MemberById(st, t, m).plan_status = "approved"
    /\ HasTask(st, t, k)
    /\ TaskById(st, t, k).status = "pending"
    /\ \A j \in 1..Len(st.teams[t].tasks) :
          LET other == st.teams[t].tasks[j]
          IN  (other.id # k /\ other.status = "in_progress")
                  => ~SharesFile(TaskById(st, t, k), other)

\* C2: claim_task succeeds iff the member is Active, is not a lead of a
\* delegation-only team, passes the plan gate, the task is Pending and shares
\* no normalized touched file with another InProgress task; a rejected call
\* leaves the task's status alone, a successful one makes it InProgress with
\* the member as assignee.
C2_ClaimAdmission ==
    ~poisoned =>
        \A t \in TeamIds, m \in MemberIds, k \in TaskIds :
            LET r == claim_task(state, t, m, k)
            IN  /\ r.ok <=> (HasTeam(state, t) /\ ClaimAllowed(state, t, m, k))
                /\ r.ok => /\ TaskById(r.st, t, k).status = "in_progress"
                           /\ TaskById(r.st, t, k).assignee = Some(m)
                /\ (~r.ok /\ HasTask(state, t, k))
                       => /\ r.err # ""
                          /\ TaskById(r.st, t, k).status = TaskById(state, t, k).status
                          /\ TaskById(r.st, t, k).assignee = TaskById(state, t, k).assignee

\* C2 witness: a member that needs plan approval holds a task in progress
\* (its claim passed the gates) while its plan has been put back to planning,
\* so that its next claim is rejected.
C2_Witness ==
    /\ ~poisoned
    /\ \E t \in Teams : \E i \in TaskIdx(Team(t)) : \E j \in MemberIdx(Team(t)) :
          /\ Team(t).tasks[i].status = "in_progress"
          /\ Team(t).tasks[i].assignee = Some(Team(t).members[j].id)
          /\ Team(t).members[j].require_plan_approval
          /\ Team(t).members[j].plan_status # "approved"

\* C3, in every state: two distinct tasks in progress share no touched file.
C3_NoSharedFileInProgress ==
    \A t \in Teams : \A i, j \in TaskIdx(Team(t)) :
        (/\ i # j
         /\ Team(t).tasks[i].status = "in_progress"
         /\ Team(t).tasks[j].status = "in_progress")
        => ~SharesFile(Team(t).tasks[i], Team(t).tasks[j])

\* C3, for every claim: a task that shares a file with a task in progress is
\* moved to in progress neither by claim_task nor by auto_claim_next_task, and
\* the tasks in progress stay in progress with their assignees.
C3_ConflictingClaimRejected ==
    ~poisoned =>
        \A t \in Teams, m \in MemberIds :
            LET team == Team(t)
                Conflicts(i) == \E j \in TaskIdx(team) :
                                   /\ j # i
                                   /\ team.tasks[j].status = "in_progress"
                                   /\ SharesFile(team.tasks[i], team.tasks[j])
                Kept(st) == \A i \in TaskIdx(team) :
                               (team.tasks[i].status = "in_progress" \/ Conflicts(i))
                                   => st.teams[t].tasks[i] = team.tasks[i]
            IN  /\ Kept(auto_claim_next_task(state, t, m).st)
                /\ \A k \in TaskIds : Kept(claim_task(state, t, m, k).st)

\* C3: no two InProgress tasks of a team share a normalized touched file; a
\* claim of a task that overlaps an InProgress task is rejected by claim_task
\* and skipped by auto_claim_next_task, and the InProgress task stays so.
C3_FileExclusion == C3_NoSharedFileInProgress /\ C3_ConflictingClaimRejected

\* C3 witness: a pending task and a task in progress declare the same file
\* in different spellings ("a" and "A "), and a member could otherwise claim.
C3_Witness ==
    /\ ~poisoned
    /\ \E t \in Teams : \E i, j \in TaskIdx(Team(t)) :
          /\ Team(t).tasks[i].status = "in_progress"
          /\ Team(t).tasks[j].status = "pending"
          /\ SharesFile(Team(t).tasks[i], Team(t).tasks[j])
          /\ Team(t).tasks[i].touched_files # Team(t).tasks[j].touched_files
          /\ \E m \in MemberIds :
                claim_task(state, t, m, Team(t).tasks[j].id).err = "file conflict"

\* the usage counters of a task or member
Counters(x) == <<x.input_tokens, x.output_tokens, x.cost_usd>>

\* C4: complete_task succeeds only for an Active member on an InProgress task
\* it is the assignee of, with distinct errors for a task that is not InProgress
\* and for another assignee; a successful call makes the task Done and adds
\* exactly the supplied tokens and the cost (clamped at zero) to the counters
\* of the task and of the member, and changes no other counter.
C4_CompletionAccounting ==
    ~poisoned =>
        \A t \in Teams, m \in MemberIds, k \in TaskIds, u \in AllUsages,
           overflow_checks \in BOOLEAN :
            LET r == complete_task(state, t, m, k, u[1], u[2], u[3], overflow_checks)
                team == Team(t)
                cost == IF u[3] < 0 THEN 0 ELSE u[3]
                Active == HasMember(state, t, m) /\ MemberById(state, t, m).status = "active"
            IN  /\ r.ok => /\ Active
                           /\ HasTask(state, t, k)
                           /\ TaskById(state, t, k).status = "in_progress"
                           /\ TaskById(state, t, k).assignee = Some(m)
                /\ (Active /\ HasTask(state, t, k)
                      /\ TaskById(state, t, k).status # "in_progress")
                       => r.err = "task is not in progress"
                /\ (Active /\ HasTask(state, t, k)
                      /\ TaskById(state, t, k).status = "in_progress"
                      /\ TaskById(state, t, k).assignee # Some(m))
                       => r.err = "member is not assignee"
                /\ r.ok =>
                      /\ TaskById(r.st, t, k).status = "done"
                      /\ Counters(TaskById(r.st, t, k)) =
                            <<TaskById(state, t, k).input_tokens + u[1],
                              TaskById(state, t, k).output_tokens + u[2],
                              TaskById(state, t, k).cost_usd + cost>>
                      /\ Counters(MemberById(r.st, t, m)) =
                            <<MemberById(state, t, m).input_tokens + u[1],
                              MemberById(state, t, m).output_tokens + u[2],
                              MemberById(state, t, m).cost_usd + cost>>
                      /\ \A i \in TaskIdx(team) :
                            team.tasks[i].id # k
                                => Counters(r.st.teams[t].tasks[i]) = Counters(team.tasks[i])
                      /\ \A j \in MemberIdx(team) :
                            team.members[j].id # m
                                => Counters(r.st.teams[t].members[j])
                                      = Counters(team.members[j])

\* C5: a successful remove_member leaves the member Terminated with the
\* reason, every task it held that was not Done without assignee and Pending
\* under AutoReassign, Blocked under Manual, and every Done task as it was.
C5_RemoveMemberRecovery ==
    ~poisoned =>
        \A t \in Teams, m \in MemberIds :
            LET r == remove_member(state, t, m, "reason")
                team == Team(t)
            IN  r.ok =>
                  /\ MemberById(r.st, t, m).status = "terminated"
                  /\ MemberById(r.st, t, m).termination_reason = Some("reason")
                  /\ \A i \in TaskIdx(team) :
                        LET old == team.tasks[i]
                            new == r.st.teams[t].tasks[i]
                        IN  /\ (old.assignee = Some(m) /\ old.status # "done")
                                  => /\ new.assignee = None
                                     /\ new.status =
                                           IF team.recovery_policy = "auto_reassign"
                                           THEN "pending" ELSE "blocked"
                            /\ old.status = "done" => new = old

\* C6: under Manual a task released by remove_member is Blocked after the
\* call and no member can claim it, by claim_task or by auto_claim_next_task,
\* in the state remove_member returns.
C6_ManualReleaseStaysBlocked ==
    ~poisoned =>
        \A t \in Teams, m \in MemberIds :
            LET r == remove_member(state, t, m, "reason")
                team == Team(t)
            IN  (r.ok /\ team.recovery_policy = "manual") =>
                  \A i \in TaskIdx(team) :
                      (team.tasks[i].assignee = Some(m) /\ team.tasks[i].status # "done")
                          => /\ r.st.teams[t].tasks[i].status = "blocked"
                             /\ \A w \in MemberIds :
                                   /\ ~claim_task(r.st, t, w, team.tasks[i].id).ok
                                   /\ auto_claim_next_task(r.st, t, w).ret
                                         # Some(team.tasks[i].id)

\* a result that is a domain error leaves the store as it was
ErrorKeeps(st, r) == (~r.ok /\ ~r.panic) => r.st = st

\* C7: a store call that returns a domain error leaves the whole EngineState
\* exactly as it was before the call.
C7_ErrorsLeaveStateUnchanged ==
    ~poisoned =>
      \A t \in TeamIds :
        /\ \A mode \in TeamDisplayModes, d \in BOOLEAN :
              ErrorKeeps(state, create_team(state, t, mode, d))
        /\ \A kind \in MemberKinds :
              ErrorKeeps(state, add_member(state, t, kind[1], kind[2]))
        /\ \A deps \in AllDeps, files \in AllFiles :
              ErrorKeeps(state, add_task(state, t, deps, files))
        /\ \A policy \in RecoveryPolicies :
              ErrorKeeps(state, set_recovery_policy(state, t, policy))
        /\ \A mode \in TeamDisplayModes :
              ErrorKeeps(state, set_team_mode(state, t, mode))
        /\ \A d \in BOOLEAN : ErrorKeeps(state, set_delegation_only(state, t, d))
        /\ ErrorKeeps(state, cleanup_team(state, t))
        /\ ErrorKeeps(state, prune_terminated(state, t))
        /\ \A from \in OptMembers, to \in OptMembers :
              ErrorKeeps(state, post_message(state, t, from, to))
        /\ \A viewer \in OptMembers, unread_only \in BOOLEAN :
              ErrorKeeps(state, team_messages(state, t, viewer, unread_only))
        /\ \A oc \in BOOLEAN : ErrorKeeps(state, team_usage(state, t, oc))
        /\ \A m \in MemberIds :
              /\ ErrorKeeps(state, submit_plan(state, t, m, "plan"))
              /\ ErrorKeeps(state, auto_claim_next_task(state, t, m))
              /\ ErrorKeeps(state, remove_member(state, t, m, "reason"))
              /\ ErrorKeeps(state, restart_member(state, t, m))
              /\ \A status \in PlanStatuses :
                    ErrorKeeps(state, set_plan_status(state, t, m, status))
              /\ \A msg \in MessageIds :
                    ErrorKeeps(state, mark_message_read(state, t, m, msg))
              /\ \A k \in TaskIds :
                    /\ ErrorKeeps(state, claim_task(state, t, m, k))
                    /\ \A u \in AllUsages, oc \in BOOLEAN :
                          ErrorKeeps(state,
                              complete_task(state, t, m, k, u[1], u[2], u[3], oc))

\* C7 witness: a team in which a task is in progress, its dependent is
\* blocked, and calls are rejected for a wrong assignee, for a task that is
\* not pending and for an unknown dependency id.
C7_Witness ==
    /\ ~poisoned
    /\ \E t \in Teams : \E m, w \in MemberIds : \E k, b \in TaskIds :
          /\ complete_task(state, t, w, k, 1, 0, 2, FALSE).err = "member is not assignee"
          /\ claim_task(state, t, m, b).err = "task is not pending"
          /\ HasTask(state, t, b) /\ TaskById(state, t, b).status = "blocked"
          /\ add_task(state, t, <<MaxTasks>>, <<>>).err = "unknown dependency task id"

\* the calls on a team id, each with its result's ok, err and store
TeamScopedRejected(t) ==
    LET Rejected(r) == ~r.ok /\ r.err = "unknown team" /\ r.st = state
    IN  /\ \A kind \in MemberKinds : Rejected(add_member(state, t, kind[1], kind[2]))
        /\ \A deps \in AllDeps, files \in AllFiles :
              Rejected(add_task(state, t, deps, files))
        /\ \A policy \in RecoveryPolicies :
              Rejected(set_recovery_policy(state, t, policy))
        /\ \A mode \in TeamDisplayModes : Rejected(set_team_mode(state, t, mode))
        /\ \A d \in BOOLEAN : Rejected(set_delegation_only(state, t, d))
        /\ Rejected(cleanup_team(state, t))
        /\ Rejected(prune_terminated(state, t))
        /\ \A from \in OptMembers, to \in OptMembers :
              Rejected(post_message(state, t, from, to))
        /\ \A viewer \in OptMembers, unread_only \in BOOLEAN :
              Rejected(team_messages(state, t, viewer, unread_only))
        /\ \A oc \in BOOLEAN : Rejected(team_usage(state, t, oc))
        /\ \A m \in MemberIds :
              /\ Rejected(submit_plan(state, t, m, "plan"))
              /\ Rejected(auto_claim_next_task(state, t, m))
              /\ Rejected(remove_member(state, t, m, "reason"))
              /\ Rejected(restart_member(state, t, m))
              /\ \A status \in PlanStatuses :
                    Rejected(set_plan_status(state, t, m, status))
              /\ \A msg \in MessageIds : Rejected(mark_message_read(state, t, m, msg))
              /\ \A k \in TaskIds :
                    /\ Rejected(claim_task(state, t, m, k))
                    /\ \A u \in AllUsages, oc \in BOOLEAN :
                          Rejected(complete_task(state, t, m, k, u[1], u[2], u[3], oc))

\* C8, in every state: each team-scoped call on a team id that is not a key
\* of the teams mapping fails with the unknown-team error and adds no team.
C8_UnknownTeamRejected ==
    ~poisoned => \A t \in TeamIds \ Teams : TeamScopedRejected(t)

\* C8, in every step: the set of team ids changes only in a step that is a
\* successful create_team or cleanup_team.
C8_TeamIdsChange ==
    DOMAIN state'.teams # DOMAIN state.teams =>
        \/ \E t \in TeamIds, mode \in TeamDisplayModes, d \in BOOLEAN :
              LET r == create_team(state, t, mode, d)
              IN  r.ok /\ state' = r.st /\ DOMAIN state'.teams = Teams \cup {t}
        \/ \E t \in TeamIds :
              LET r == cleanup_team(state, t)
              IN  r.ok /\ state' = r.st /\ DOMAIN state'.teams = Teams \ {t}

\* C8: a team-scoped operation on an unknown team id fails with an
\* unknown-team error and creates no team; the set of team ids changes only
\* through a successful create_team or cleanup_team.
C8_TeamScope == [](C8_UnknownTeamRejected) /\ [][C8_TeamIdsChange]_vars

\* C8 witness: "t1" was created, filled and cleaned up again while "t2"
\* lives: calls on "t1" are calls on an unknown team.
C8_Witness ==
    /\ ~poisoned
    /\ Teams = {"t2"}
    /\ Team("t2").members # <<>>
    /\ state.sessions = SessionNames

\* C9, in every state: the ids of the members, of the tasks and of the
\* messages of a team are pairwise distinct and below the team's counters.
C9_IdsDistinct ==
    \A t \in Teams :
        LET team == Team(t)
            Distinct(seq) == \A i, j \in 1..Len(seq) : seq[i].id = seq[j].id => i = j
        IN  /\ Distinct(team.members) /\ Distinct(team.tasks) /\ Distinct(team.messages)
            /\ \A id \in Ids(team.members)  : id < team.next_member_id
            /\ \A id \in Ids(team.tasks)    : id < team.next_task_id
            /\ \A id \in Ids(team.messages) : id < team.next_message_id

\* C9, in every step of a team: no counter decreases, and a member, task or
\* message the step creates gets an id that is not below the counter before
\* the step (so above every id handed out before).
C9_IdsFresh ==
    \A t \in Teams \cap DOMAIN state'.teams :
        LET old == Team(t)
            new == state'.teams[t]
        IN  /\ new.next_member_id >= old.next_member_id
            /\ new.next_task_id >= old.next_task_id
            /\ new.next_message_id >= old.next_message_id
            /\ \A id \in Ids(new.members)  \ Ids(old.members)  : id >= old.next_member_id
            /\ \A id \in Ids(new.tasks)    \ Ids(old.tasks)    : id >= old.next_task_id
            /\ \A id \in Ids(new.messages) \ Ids(old.messages) : id >= old.next_message_id

\* C9: within a team member, task and message ids are unique and an id is
\* never given out twice, also after the member holding it was removed and
\* pruned: the three counters only grow and exceed every id handed out.
C9_IdsNeverReused == [](C9_IdsDistinct) /\ [][C9_IdsFresh]_vars

\* C9 witness: member 0 was removed and pruned and a member was added
\* after it: the team holds member 1 alone.
C9_Witness ==
    \E t \in Teams :
        /\ Ids(Team(t).members) = {1}
        /\ Team(t).next_member_id = 2
        /\ Team(t).members[1].status = "active"

\* C10, in every state where no handler holds the guard: the store is the one
\* obtained by applying the requests in the order their handlers took the
\* guard.
C10_AppliedInLockOrder == lock = 0 => state = applied

\* C10, in every step that releases the guard: the state file holds the
\* serialization of the store, which is the one obtained by applying the
\* requests so far in lock order.
C10_FileAtRelease ==
    (lock # 0 /\ lock' = 0) =>
        /\ state' = applied'
        /\ file' = Some(Serialize(state'))

\* C10: requests are applied in the order their handlers acquire the lock,
\* and when the N-th handler releases the lock the state file equals the
\* serialization of the store after requests 1..N; the file neither lags
\* behind nor runs ahead of the store at a lock release.
C10_FileFollowsLockOrder ==
    [](C10_AppliedInLockOrder) /\ [][C10_FileAtRelease]_vars

\* C11, reading: a handler that waits for or has read a request line, or
\* has returned, does not hold the guard.
C11_NoLockWhileReading ==
    \A c \in Conns :
        conn[c].pc \in {"read", "invalid", "parsed", "closed", "read_error", "io_error",
                        "lock_error", "panicked"} => lock # c

\* C11, writing: a handler that writes and flushes its response line does
\* not hold the guard.
C11_NoLockWhileWriting ==
    \A c \in Conns : conn[c].pc \in {"write", "stalled"} => lock # c

\* C11: a connection handler holds the state lock only during dispatch and
\* persist: not while it is blocked reading the next request line, and it
\* has released the lock before it starts to write and flush the response.
C11_LockOnlyDuringDispatchAndPersist ==
    C11_NoLockWhileReading /\ C11_NoLockWhileWriting

\* C12: one slow or stalled client cannot starve the others. Whatever the
\* other clients do, under fair scheduling a request parsed on a connection
\* leaves the wait for the lock and is carried through: its response is
\* delivered ("read"), unless its own socket fails, its own client does not
\* read, or the store call panicked.
C12_NoStarvation ==
    \A c \in Conns :
        (conn[c].pc = "parsed") ~>
            (conn[c].pc \in {"read", "io_error", "stalled", "panicked", "lock_error"})

\* C13, in every state: a handler that has read a line that is no
\* ServerRequest is answering it; it has not returned and holds no lock.
C13_MalformedIsAnswered ==
    \A c \in Conns :
        (conn[c].req # None /\ ~Parses(conn[c].req[1])) =>
            (conn[c].pc = "invalid" /\ lock # c)

\* C13, in every step that ends the answering of such a line: the store, the
\* state file, the lock and the other connections are as before, and the
\* connection has got exactly one more response, with ok=false, and reads
\* on; or the socket write failed.
C13_RejectStep ==
    \A c \in Conns :
        (conn[c].pc = "invalid" /\ conn'[c].pc # "invalid") =>
            /\ state' = state /\ file' = file /\ lock' = lock /\ applied' = applied
            /\ \A o \in Conns \ {c} : conn'[o] = conn[o]
            /\ \/ /\ conn'[c].pc = "read"
                  /\ Len(conn'[c].got) = Len(conn[c].got) + 1
                  /\ SubSeq(conn'[c].got, 1, Len(conn[c].got)) = conn[c].got
                  /\ ~conn'[c].got[Len(conn'[c].got)].ok
               \/ conn'[c].pc = "io_error"

\* C13: a request line that does not parse as a ServerRequest is answered on
\* its connection with exactly one ok=false response, without the lock and
\* without a change to the store or the file, and the connection stays open
\* for further request lines; no other connection is affected.
C13_MalformedLine == [](C13_MalformedIsAnswered) /\ [][C13_RejectStep]_vars

\* C14, in every step: when the lock is poisoned, a handler that leaves the
\* wait for the lock with a parsed request delivers a response with ok=false
\* to its client.
C14_PoisonStep ==
    \A c \in Conns :
        (poisoned /\ conn[c].pc = "parsed" /\ conn'[c].pc # "parsed") =>
            /\ Len(conn'[c].got) = Len(conn[c].got) + 1
            /\ ~conn'[c].got[Len(conn'[c].got)].ok

\* C14: when the state lock is poisoned, every request parsed afterwards is
\* answered with a response line with ok=false and a message; it is not
\* dropped by closing the connection without a response.
C14_PoisonSurfaced == [][C14_PoisonStep]_vars

\* C15, in every step in which a handler goes from its save to its write:
\* if the file does not hold the serialization of the store (the save
\* returned an error) and the store differs from what the file holds (a
\* mutation lives in memory only), the response about to be written does
\* not say ok=true.
C15_SaveStep ==
    \A c \in Conns :
        ( /\ conn[c].pc = "save" /\ conn'[c].pc = "write"
          /\ file' # Some(Serialize(state'))
          /\ load_or_default(file') # state' ) =>
            ~conn'[c].resp[1].ok

\* C15: if persisting the state fails during a request, the response to
\* that request does not claim success: no ok=true response is sent for a
\* request whose mutation was applied in memory but not written to the file.
C15_FailedSaveNotOk == [][C15_SaveStep]_vars

\* C16, mutual exclusion: the handlers between acquiring and releasing the
\* guard are exactly the one that `lock` names, so there is at most one.
C16_OneInCriticalSection ==
    /\ \A c \in Conns :
          conn[c].pc \in {"locked", "save", "write", "stalled"} <=> lock = c
    /\ Cardinality({c \in Conns :
                      conn[c].pc \in {"locked", "save", "write", "stalled"}}) <= 1

\* C16, serial outcome: outside the critical section the store is the one
\* obtained by applying the requests one at a time, in lock order.
C16_SerialOutcome == (lock = 0 /\ ~poisoned) => state = applied

\* the store was loaded from the seed: team "t1" with members 0 and 1,
\* both eligible, and the single task 0, pending before the first claim
Seeded == HasTeam(state, "t1") /\ Len(Team("t1").tasks) = 1

\* the responses a connection received to claims of task 0 of "t1"
ClaimReplies(c) ==
    {i \in 1..Len(conn[c].got) :
        /\ conn[c].got[i].req.type = "team_claim_task"
        /\ conn[c].got[i].req.team_id = "t1"
        /\ conn[c].got[i].req.task_id = 0}

\* all requests of the connection were answered
AllAnswered(c) == conn[c].pc \in {"read", "closed"}

\* C16, the double claim: when two connections have sent claims of the
\* pending task 0 and have received all their responses, exactly one claim
\* was answered ok=true, every other one ok=false, and the task's assignee
\* is the member of the successful request.
C16_DoubleClaim ==
    (Seeded /\ ~poisoned) =>
        \A c1, c2 \in Conns :
            ( /\ c1 # c2 /\ AllAnswered(c1) /\ AllAnswered(c2)
              /\ ClaimReplies(c1) # {} /\ ClaimReplies(c2) # {} ) =>
                LET won == {w \in Conns \X (1..MaxRequests) :
                               /\ w[2] \in ClaimReplies(w[1])
                               /\ conn[w[1]].got[w[2]].ok}
                IN  /\ Cardinality(won) = 1
                    /\ \A w \in won :
                          TaskById(state, "t1", 0).assignee =
                              Some(conn[w[1]].got[w[2]].req.member_id)

\* C16: at most one connection handler at a time is between acquiring and
\* releasing the state lock, so the outcome of concurrent requests is that
\* of applying them one at a time in some order; two concurrent claims of
\* the same pending task by two eligible members give exactly one ok=true,
\* and the assignee is the member of the successful request.
C16_Serialized == C16_OneInCriticalSection /\ C16_SerialOutcome /\ C16_DoubleClaim

\* C16 witness: connection 1 claimed task 0 for member 0 and connection 2
\* for member 1 while connection 1 was still in its critical section;
\* both were answered, connection 2 with ok=false.
C16_Witness ==
    /\ Seeded /\ ~poisoned
    /\ AllAnswered(1) /\ AllAnswered(2)
    /\ Len(conn[1].got) = 1 /\ Len(conn[2].got) = 1
    /\ conn[1].got[1].req.type = "team_claim_task" /\ conn[1].got[1].req.member_id = 0
    /\ conn[2].got[1].req.type = "team_claim_task" /\ conn[2].got[1].req.member_id = 1
    /\ conn[1].got[1].ok /\ ~conn[2].got[1].ok
    /\ TaskById(state, "t1", 0).assignee = Some(0)

\* the ids of the terminated members of a team
TerminatedIds(team) ==
    {team.members[i].id :
        i \in {j \in 1..Len(team.members) : team.members[j].status = "terminated"}}

\* what prune_terminated may change in a team and what it must keep
PruneFrame(old, new) ==
    LET gone == TerminatedIds(old)
    IN  \* the members: exactly the ones that are not terminated, as they were
        /\ \A i \in 1..Len(new.members) :
              /\ new.members[i].id \notin gone
              /\ \E j \in 1..Len(old.members) : old.members[j] = new.members[i]
        /\ \A j \in 1..Len(old.members) :
              old.members[j].id \notin gone =>
                  \E i \in 1..Len(new.members) : new.members[i] = old.members[j]
        /\ Len(new.members) =
              Cardinality({j \in 1..Len(old.members) : old.members[j].id \notin gone})
        /\ \A i \in 1..Len(new.members) - 1 : new.members[i].id < new.members[i + 1].id
        \* the messages: all of them, only the read-by sets lose the pruned ids
        /\ Len(new.messages) = Len(old.messages)
        /\ \A k \in 1..Len(old.messages) :
              LET a == old.messages[k]
                  b == new.messages[k]
              IN  /\ [b EXCEPT !.read_by = <<>>] = [a EXCEPT !.read_by = <<>>]
                  /\ {b.read_by[i] : i \in 1..Len(b.read_by)} =
                        {a.read_by[i] : i \in 1..Len(a.read_by)} \ gone
                  /\ Len(b.read_by) =
                        Cardinality({i \in 1..Len(a.read_by) : a.read_by[i] \notin gone})
        \* tasks, counters and settings
        /\ new.tasks = old.tasks
        /\ new.next_member_id = old.next_member_id
        /\ new.next_task_id = old.next_task_id
        /\ new.next_message_id = old.next_message_id
        /\ new.id = old.id /\ new.mode = old.mode
        /\ new.delegation_only = old.delegation_only
        /\ new.recovery_policy = old.recovery_policy

\* C17: prune_terminated(team) removes exactly the Terminated members from
\* the member list and exactly their ids from every message's read-by set;
\* Active members, all tasks, the messages' ids, senders, recipients and
\* texts, and the three id counters are unchanged (the sessions and the
\* other teams as well).
C17_PruneFrame ==
    ~poisoned =>
        \A t \in Teams :
            LET r == prune_terminated(state, t)
            IN  /\ r.ok
                /\ DOMAIN r.st.teams = Teams
                /\ PruneFrame(Team(t), r.st.teams[t])
                /\ \A o \in Teams \ {t} : r.st.teams[o] = Team(o)
                /\ r.st.sessions = state.sessions
                /\ r.st.active_session = state.active_session

\* C17 witness: a team with an active and a terminated member, a message
\* that both have read, and a done task of the terminated member.
C17_Witness ==
    /\ ~poisoned
    /\ \E t \in Teams :
          /\ TerminatedIds(Team(t)) # {}
          /\ \E i \in 1..Len(Team(t).members) : Team(t).members[i].status = "active"
          /\ \E k \in 1..Len(Team(t).messages) :
                LET rb == Team(t).messages[k].read_by
                IN  /\ \E i \in 1..Len(rb) : rb[i] \in TerminatedIds(Team(t))
                    /\ \E i \in 1..Len(rb) : rb[i] \notin TerminatedIds(Team(t))

\* the message may be returned to viewer v
MayBeShown(msg, v, unread_only) ==
    /\ msg.to_member = None \/ msg.to_member = Some(v)
    /\ unread_only => \A i \in 1..Len(msg.read_by) : msg.read_by[i] # v

\* the positions of `out` in `all` are ascending (out is a subsequence)
RECURSIVE IsSubsequence(_, _)
IsSubsequence(out, all) ==
    IF out = <<>> THEN TRUE
    ELSE IF all = <<>> THEN FALSE
    ELSE IF Head(out) = Head(all) THEN IsSubsequence(Tail(out), Tail(all))
    ELSE IsSubsequence(out, Tail(all))

\* C18: team_messages with a viewer v returns a message only if it is a
\* broadcast or directed to v, and with unread_only only if v has not read
\* it; it returns all of those, in posting order. A message directed to
\* another member is returned only to a call without a viewer, which gets
\* every message. The call changes nothing.
C18_MessageVisibility ==
    ~poisoned =>
        \A t \in Teams, unread_only \in BOOLEAN :
            /\ \A v \in MemberIds :
                  LET r == team_messages(state, t, Some(v), unread_only)
                  IN  /\ r.st = state
                      /\ r.ok <=> HasMember(state, t, v)
                      /\ r.ok =>
                            /\ \A i \in 1..Len(r.ret) :
                                  MayBeShown(r.ret[i], v, unread_only)
                            /\ \A k \in 1..Len(Team(t).messages) :
                                  MayBeShown(Team(t).messages[k], v, unread_only) =>
                                      \E i \in 1..Len(r.ret) :
                                          r.ret[i] = Team(t).messages[k]
                            /\ IsSubsequence(r.ret, Team(t).messages)
            /\ LET r == team_messages(state, t, None, unread_only)
               IN  r.ok /\ r.st = state /\ r.ret = Team(t).messages

\* C18 witness: a message directed to member 0 is kept after member 0 was
\* removed and pruned; member 1 views the team's messages, has read a
\* broadcast, and is not shown the directed one.
C18_Witness ==
    /\ ~poisoned
    /\ \E t \in Teams :
          /\ ~HasMember(state, t, 0) /\ HasMember(state, t, 1)
          /\ \E k \in 1..Len(Team(t).messages) : Team(t).messages[k].to_member = Some(0)
          /\ \E k \in 1..Len(Team(t).messages) :
                /\ Team(t).messages[k].to_member = None
                /\ Contains(Team(t).messages[k].read_by, 1)
          /\ team_messages(state, t, Some(1), TRUE).ret = <<>>
          /\ Len(team_messages(state, t, None, TRUE).ret) = 2

\* the member gates of a claim, read in the current state
MemberEligible(t, m) ==
    /\ HasMember(state, t, m)
    /\ MemberById(state, t, m).status = "active"
    /\ ~(Team(t).delegation_only /\ MemberById(state, t, m).is_lead)
    /\ \/ ~MemberById(state, t, m).require_plan_approval
       \/ MemberById(state, t, m).plan_status = "approved"

\* the pending tasks of the team without a file conflict with a task in
\* progress
FreeTasks(t) ==
    {k \in TaskIds :
        /\ HasTask(state, t, k)
        /\ TaskById(state, t, k).status = "pending"
        /\ \A j \in 1..Len(Team(t).tasks) :
              (Team(t).tasks[j].id # k /\ Team(t).tasks[j].status = "in_progress")
                  => ~SharesFile(TaskById(state, t, k), Team(t).tasks[j])}

\* the least element of a non-empty set of numbers
Least(S) == CHOOSE x \in S : \A y \in S : x <= y

\* C19: auto_claim_next_task applies the member gates of claim_task and
\* fails with the same error when one is not met; otherwise it claims the
\* pending task with the smallest id that has no file conflict, which is the
\* smallest id for which claim_task by that member would succeed, with the
\* same resulting store, and returns that id; when there is none it returns
\* the none-available result without an error and changes nothing.
C19_AutoClaim ==
    ~poisoned =>
        \A t \in Teams, m \in MemberIds :
            LET a == auto_claim_next_task(state, t, m)
                claimable == {k \in TaskIds : claim_task(state, t, m, k).ok}
                reply == Dispatch(state, [type |-> "team_auto_claim", team_id |-> t,
                                          member_id |-> m], FALSE).resp
            IN  /\ reply.ok = a.ok
                /\ (a.ok /\ a.ret = None) => reply.message = "no claimable task"
                /\ ~MemberEligible(t, m) =>
                      /\ ~a.ok /\ a.err # "" /\ a.st = state
                      /\ \A k \in TaskIds : claim_task(state, t, m, k).err = a.err
                /\ MemberEligible(t, m) =>
                      /\ a.ok
                      /\ claimable = FreeTasks(t)
                      /\ FreeTasks(t) = {} => (a.ret = None /\ a.st = state)
                      /\ FreeTasks(t) # {} =>
                            /\ a.ret = Some(Least(FreeTasks(t)))
                            /\ a.st = claim_task(state, t, m, Least(claimable)).st
                            /\ TaskById(a.st, t, a.ret[1]).status = "in_progress"
                            /\ TaskById(a.st, t, a.ret[1]).assignee = Some(m)
                            /\ \A k \in TaskIds \ {a.ret[1]} :
                                  HasTask(state, t, k) =>
                                      TaskById(a.st, t, k) = TaskById(state, t, k)

\* C19 witness: an eligible member whose automatic claim skips a pending
\* task with a lower id because that task shares a file with a task in
\* progress, and a member of the same team that is refused by a gate.
C19_Witness ==
    /\ ~poisoned
    /\ \E t \in Teams : \E m \in MemberIds : \E j \in TaskIds :
          /\ MemberEligible(t, m)
          /\ HasTask(state, t, j) /\ TaskById(state, t, j).status = "pending"
          /\ j \notin FreeTasks(t)
          /\ FreeTasks(t) # {}
          /\ auto_claim_next_task(state, t, m).ret = Some(Least(FreeTasks(t)))
          /\ Least(FreeTasks(t)) > j

\* C20: for every reachable EngineState s, saving s and then loading the
\* state file with load_or_default yields a state equal to s field for
\* field.
C20_SaveLoadRoundTrip ==
    ~poisoned => load_or_default(Some(Serialize(state))) = state

\* a call on a team: the operation, the member and the task it names (-1 when
\* it names none), its outcome, the store it leaves and, for an automatic
\* claim, the task id it returned
Call(op, m, k, r) ==
    [op |-> op, m |-> m, k |-> k, ok |-> r.ok, panic |-> r.panic, st |-> r.st,
     claimed |-> IF op = "auto_claim_next_task" THEN r.ret ELSE None]

\* the claims and the completions that can be called on team t in the
\* current store
ClaimCalls(t) ==
    {Call("claim_task", m, k, claim_task(state, t, m, k)) :
        m \in MemberIds, k \in TaskIds}
    \cup {Call("auto_claim_next_task", m, -1, auto_claim_next_task(state, t, m)) :
             m \in MemberIds}

CompleteCalls(t) ==
    {Call("complete_task", x[1], x[2],
          complete_task(state, t, x[1], x[2], x[3][1], x[3][2], x[3][3], x[4])) :
        x \in MemberIds \X TaskIds \X AllUsages \X BOOLEAN}

\* every other call that can be made on team t in the current store
OtherCalls(t) ==
    {Call("create_team", -1, -1, create_team(state, t, x[1], x[2])) :
        x \in TeamDisplayModes \X BOOLEAN}
    \cup {Call("add_member", -1, -1, add_member(state, t, x[1], x[2])) : x \in MemberKinds}
    \cup {Call("add_task", -1, -1, add_task(state, t, x[1], x[2])) : x \in AllDeps \X AllFiles}
    \cup {Call("submit_plan", m, -1, submit_plan(state, t, m, "plan")) : m \in MemberIds}
    \cup {Call("set_plan_status", x[1], -1, set_plan_status(state, t, x[1], x[2])) :
             x \in MemberIds \X PlanStatuses}
    \cup {Call("set_delegation_only", -1, -1, set_delegation_only(state, t, d)) : d \in BOOLEAN}
    \cup {Call("set_team_mode", -1, -1, set_team_mode(state, t, x)) : x \in TeamDisplayModes}
    \cup {Call("set_recovery_policy", -1, -1, set_recovery_policy(state, t, x)) :
             x \in RecoveryPolicies}
    \cup {Call("remove_member", m, -1, remove_member(state, t, m, "reason")) : m \in MemberIds}
    \cup {Call("restart_member", m, -1, restart_member(state, t, m)) : m \in MemberIds}
    \cup {Call("prune_terminated", -1, -1, prune_terminated(state, t))}
    \cup {Call("post_message", -1, -1, post_message(state, t, x[1], x[2])) :
             x \in OptMembers \X OptMembers}
    \cup {Call("team_messages", -1, -1, team_messages(state, t, x[1], x[2])) :
             x \in OptMembers \X BOOLEAN}
    \cup {Call("mark_message_read", x[1], -1, mark_message_read(state, t, x[1], x[2])) :
             x \in MemberIds \X MessageIds}
    \cup {Call("team_usage", -1, -1, team_usage(state, t, oc)) : oc \in BOOLEAN}

\* the call c moves task i of team t from old to new as C21 allows
LawfulTaskChange(c, old, new) ==
    /\ (new.status = "in_progress" /\ old.status # "in_progress")
          => /\ c.op \in {"claim_task", "auto_claim_next_task"}
             /\ c.ok
             /\ old.status = "pending"
             /\ new.assignee = Some(c.m)
             /\ c.op = "claim_task" => c.k = old.id
             /\ c.op = "auto_claim_next_task" => c.claimed = Some(old.id)
    /\ (new.status = "done" /\ old.status # "done")
          => /\ c.op = "complete_task"
             /\ c.ok
             /\ c.k = old.id
             /\ old.status = "in_progress"
             /\ old.assignee = Some(c.m)
    /\ old.status = "done"
          => /\ new.status = "done"
             /\ new.assignee = old.assignee
             /\ Counters(new) = Counters(old)

\* C21, for every call in every state: the call moves a task to in progress
\* only if it is a successful claim of that task, to done only if it is a
\* successful completion by its assignee, leaves a done task's status,
\* assignee and counters alone, and creates no task in progress or done.
C21_CallsKeepLifecycle ==
    ~poisoned =>
        \A t \in Teams :
            \A c \in ClaimCalls(t) \cup CompleteCalls(t) \cup OtherCalls(t) :
                (~c.panic /\ HasTeam(c.st, t)) =>
                    LET old == Team(t).tasks
                        new == c.st.teams[t].tasks
                    IN  /\ Len(new) >= Len(old)
                        /\ \A i \in 1..Len(old) :
                              /\ new[i].id = old[i].id
                              /\ LawfulTaskChange(c, old[i], new[i])
                        /\ \A i \in (Len(old) + 1)..Len(new) :
                              new[i].status \in {"pending", "blocked"}

\* C21, for every step: a task that the step moves to in progress or to done
\* is moved by a claim or completion that is among the calls above, and a
\* done task is left as it was.
C21_StepKeepsLifecycle ==
    ~poisoned' =>
        \A t \in Teams \cap DOMAIN state'.teams :
            \A i \in 1..Len(Team(t).tasks) :
                LET old == Team(t).tasks[i]
                    new == state'.teams[t].tasks[i]
                IN  /\ Len(state'.teams[t].tasks) >= i
                    /\ (new.status # old.status /\ new.status \in {"in_progress", "done"})
                          => \E c \in ClaimCalls(t) \cup CompleteCalls(t) :
                                /\ c.ok /\ state' = c.st
                                /\ LawfulTaskChange(c, old, new)
                    /\ old.status = "done"
                          => /\ new.status = "done"
                             /\ new.assignee = old.assignee
                             /\ Counters(new) = Counters(old)

\* C21: a task becomes InProgress only by a successful claim_task or
\* auto_claim_next_task and Done only by a successful complete_task of its
\* current assignee; no other operation produces either status, and a Done
\* task keeps its status, assignee and usage counters for ever, so a task is
\* completed at most once.
C21_TaskLifecycle == [](C21_CallsKeepLifecycle) /\ [][C21_StepKeepsLifecycle]_vars

\* C21 witness: a task is done and the member that completed it has been
\* removed, while that member's other task was released and has been
\* claimed again.
C21_Witness ==
    /\ ~poisoned
    /\ \E t \in Teams : \E i, j \in TaskIdx(Team(t)) : \E m \in MemberIdx(Team(t)) :
          /\ Team(t).tasks[i].status = "done"
          /\ Team(t).tasks[i].assignee = Some(Team(t).members[m].id)
          /\ Team(t).members[m].status = "terminated"
          /\ Team(t).tasks[j].status = "in_progress"
          /\ Team(t).tasks[j].assignee # Team(t).tasks[i].assignee
          /\ Team(t).recovery_policy = "manual"

\* the member record with the three fields restart_member sets left out
BesidesTermination(member) ==
    [f \in (DOMAIN member) \ {"status", "terminated_at", "termination_reason"} |-> member[f]]

\* the team record with its member list left out
BesidesMembers(team) == [f \in (DOMAIN team) \ {"members"} |-> team[f]]

\* C22: a successful restart_member(team, M) makes M Active without
\* termination timestamp and reason, and changes nothing else: M's other
\* fields (plan status, latest plan, usage counters), every other member,
\* every task, and the rest of the store are as before; a task that
\* remove_member took from M is not M's again after the restart.
C22_RestartFrame ==
    ~poisoned =>
        \A t \in Teams, m \in MemberIds :
            LET r == restart_member(state, t, m)
                old == Team(t)
                new == r.st.teams[t]
                removed == remove_member(state, t, m, "reason")
                back == restart_member(removed.st, t, m)
            IN  /\ r.ok <=> HasMember(state, t, m)
                /\ r.ok =>
                      /\ MemberById(r.st, t, m).status = "active"
                      /\ MemberById(r.st, t, m).terminated_at = None
                      /\ MemberById(r.st, t, m).termination_reason = None
                      /\ BesidesTermination(MemberById(r.st, t, m))
                            = BesidesTermination(MemberById(state, t, m))
                      /\ Len(new.members) = Len(old.members)
                      /\ \A i \in MemberIdx(old) :
                            old.members[i].id # m => new.members[i] = old.members[i]
                      /\ BesidesMembers(new) = BesidesMembers(old)
                      /\ DOMAIN r.st.teams = Teams
                      /\ \A o \in Teams \ {t} : r.st.teams[o] = Team(o)
                      /\ r.st.sessions = state.sessions
                      /\ r.st.active_session = state.active_session
                /\ (removed.ok /\ back.ok) =>
                      /\ back.st.teams[t].tasks = removed.st.teams[t].tasks
                      /\ \A i \in TaskIdx(old) :
                            (old.tasks[i].assignee = Some(m) /\ old.tasks[i].status # "done")
                                => back.st.teams[t].tasks[i].assignee = None

\* C22 witness: a terminated member with a submitted plan and usage of its
\* own beside a task that has no assignee: the restart acts on it.
C22_Witness ==
    /\ ~poisoned
    /\ \E t \in Teams : \E i \in MemberIdx(Team(t)) : \E k \in TaskIdx(Team(t)) :
          LET member == Team(t).members[i]
          IN  /\ member.status = "terminated"
              /\ member.latest_plan # None
              /\ member.plan_status = "approved"
              /\ member.input_tokens > 0
              /\ Team(t).tasks[k].assignee = None
              /\ restart_member(state, t, member.id).st # state

\* the call was rejected because the member is not active, and changed nothing
RejectedInactive(r) ==
    ~r.ok /\ ~r.panic /\ r.err = "member is not active" /\ r.st = state

\* C23, in every state: for a member that is terminated, claim_task,
\* auto_claim_next_task, complete_task, submit_plan, set_plan_status and
\* mark_message_read with its id fail with the not-active error and leave
\* the store as it was.
C23_TerminatedRejected ==
    ~poisoned =>
        \A t \in Teams : \A i \in MemberIdx(Team(t)) :
            LET m == Team(t).members[i].id
            IN  Team(t).members[i].status = "terminated" =>
                  /\ RejectedInactive(auto_claim_next_task(state, t, m))
                  /\ RejectedInactive(submit_plan(state, t, m, "plan"))
                  /\ \A k \in TaskIds :
                        /\ RejectedInactive(claim_task(state, t, m, k))
                        /\ \A u \in AllUsages, oc \in BOOLEAN :
                              RejectedInactive(
                                  complete_task(state, t, m, k, u[1], u[2], u[3], oc))
                  /\ \A s \in PlanStatuses :
                        RejectedInactive(set_plan_status(state, t, m, s))
                  /\ \A msg \in MessageIds :
                        RejectedInactive(mark_message_read(state, t, m, msg))

\* C23, in every step: a member becomes terminated only by a successful
\* remove_member of it, and a terminated member becomes active only by a
\* successful restart_member of it.
C23_TerminatedUntilRestart ==
    \A t \in Teams \cap DOMAIN state'.teams : \A m \in MemberIds :
        (HasMember(state, t, m) /\ HasMember(state', t, m)) =>
            LET old == MemberById(state, t, m).status
                new == MemberById(state', t, m).status
            IN  /\ (old = "active" /\ new = "terminated")
                      => LET r == remove_member(state, t, m, "reason")
                         IN  r.ok /\ state' = r.st
                /\ (old = "terminated" /\ new = "active")
                      => LET r == restart_member(state, t, m)
                         IN  r.ok /\ state' = r.st

\* C23: while a member is Terminated, claim_task, auto_claim_next_task,
\* complete_task, submit_plan, set_plan_status and mark_message_read with
\* its id are rejected and change nothing, from the return of remove_member
\* until a restart_member makes the member Active again.
C23_TerminatedMember == [](C23_TerminatedRejected) /\ [][C23_TerminatedUntilRestart]_vars

\* C23 witness: a terminated member with an approved plan beside a pending
\* task: only its status stands between it and the claim.
C23_Witness ==
    /\ ~poisoned
    /\ \E t \in Teams : \E i \in MemberIdx(Team(t)) : \E k \in TaskIds :
          LET m == Team(t).members[i].id
          IN  /\ Team(t).members[i].status = "terminated"
              /\ Team(t).members[i].require_plan_approval
              /\ claim_task(restart_member(state, t, m).st, t, m, k).ok
              /\ ~claim_task(state, t, m, k).ok

\* the optional member id is absent or is the id of an active member of team t
AbsentOrActive(t, opt) ==
    \/ opt = None
    \/ /\ HasMember(state, t, opt[1])
       /\ MemberById(state, t, opt[1]).status = "active"

\* the team record with its message list and message counter left out
BesidesMessages(team) ==
    [f \in (DOMAIN team) \ {"messages", "next_message_id"} |-> team[f]]

\* C24: post_message succeeds iff the team is known and from_member and
\* to_member, when given, are ids of existing Active members; a successful
\* call appends exactly one message with a fresh id and an empty read-by set
\* and changes nothing else; a failed call appends nothing and leaves
\* next_message_id as it was.
C24_PostMessage ==
    ~poisoned =>
        \A t \in TeamIds, from \in OptMembers, to \in OptMembers :
            LET r == post_message(state, t, from, to)
            IN  /\ r.ok <=> /\ HasTeam(state, t)
                            /\ AbsentOrActive(t, from)
                            /\ AbsentOrActive(t, to)
                /\ ~r.panic
                /\ ~r.ok => r.st = state
                /\ r.ok =>
                      LET old == Team(t)
                          new == r.st.teams[t]
                          msg == new.messages[Len(new.messages)]
                      IN  /\ Len(new.messages) = Len(old.messages) + 1
                          /\ SubSeq(new.messages, 1, Len(old.messages)) = old.messages
                          /\ msg.id \notin Ids(old.messages)
                          /\ msg.id = old.next_message_id
                          /\ msg.read_by = <<>>
                          /\ msg.from_member = from /\ msg.to_member = to
                          /\ r.ret = Some(msg)
                          /\ new.next_message_id = old.next_message_id + 1
                          /\ BesidesMessages(new) = BesidesMessages(old)
                          /\ DOMAIN r.st.teams = Teams
                          /\ \A o \in Teams \ {t} : r.st.teams[o] = Team(o)
                          /\ r.st.sessions = state.sessions
                          /\ r.st.active_session = state.active_session

\* C24 witness: a team with an active and a terminated member and a message
\* already posted: a message between the two is refused, a message from the
\* active member to everyone is accepted.
C24_Witness ==
    /\ ~poisoned
    /\ \E t \in Teams : \E a, b \in MemberIds :
          /\ HasMember(state, t, a) /\ MemberById(state, t, a).status = "active"
          /\ HasMember(state, t, b) /\ MemberById(state, t, b).status = "terminated"
          /\ Team(t).messages # <<>>
          /\ post_message(state, t, Some(a), None).ok
          /\ post_message(state, t, Some(a), Some(b)).err = "member is not active"
          /\ post_message(state, t, Some(b), None).err = "member is not active"
          /\ post_message(state, t, Some(MaxMembers), None).err = "unknown member id"

\* how many times x occurs in the sequence
Occurrences(seq, x) == Cardinality({i \in 1..Len(seq) : seq[i] = x})

HasMessage(st, t, k) == HasTeam(st, t) /\ Position(st.teams[t].messages, k) # 0
MessageById(st, t, k) == st.teams[t].messages[Position(st.teams[t].messages, k)]

\* the message record with its read-by list left out
BesidesReadBy(msg) == [f \in (DOMAIN msg) \ {"read_by"} |-> msg[f]]

\* C25, in every state: no read-by list holds a member id twice.
C25_ReadByIsASet ==
    \A t \in Teams : \A k \in 1..Len(Team(t).messages) : \A m \in MemberIds :
        Occurrences(Team(t).messages[k].read_by, m) <= 1

\* C25, for every call: mark_message_read succeeds iff the member exists and
\* is active and the message exists; after it the member occurs once in the
\* read-by list of the message, the other readers are as before and nothing
\* else changed; the same call again succeeds and changes nothing.
C25_MarkOnce ==
    ~poisoned =>
        \A t \in Teams, m \in MemberIds, k \in MessageIds :
            LET r == mark_message_read(state, t, m, k)
                again == mark_message_read(r.st, t, m, k)
                old == Team(t)
                new == r.st.teams[t]
            IN  /\ r.ok <=> /\ HasMember(state, t, m)
                            /\ MemberById(state, t, m).status = "active"
                            /\ HasMessage(state, t, k)
                /\ ~r.ok => r.st = state
                /\ r.ok =>
                      /\ Occurrences(MessageById(r.st, t, k).read_by, m) = 1
                      /\ \A o \in MemberIds \ {m} :
                            Occurrences(MessageById(r.st, t, k).read_by, o)
                               = Occurrences(MessageById(state, t, k).read_by, o)
                      /\ BesidesReadBy(MessageById(r.st, t, k))
                            = BesidesReadBy(MessageById(state, t, k))
                      /\ Len(new.messages) = Len(old.messages)
                      /\ \A j \in 1..Len(old.messages) :
                            old.messages[j].id # k => new.messages[j] = old.messages[j]
                      /\ [new EXCEPT !.messages = <<>>] = [old EXCEPT !.messages = <<>>]
                      /\ \A o \in Teams \ {t} : r.st.teams[o] = Team(o)
                      /\ DOMAIN r.st.teams = Teams
                      /\ r.st.sessions = state.sessions
                      /\ r.st.active_session = state.active_session
                      /\ again.ok /\ again.st = r.st
                      /\ Contains(MessageById(state, t, k).read_by, m) => r.st = state

\* C25: mark_message_read needs an existing Active member and an existing
\* message and is idempotent: after one or several successful calls the
\* member's id is in the read-by set exactly once and a second call changes
\* nothing; no read-by set ever holds an id twice.
C25_MarkReadIdempotent == C25_ReadByIsASet /\ C25_MarkOnce

\* C25 witness: a message that two members have read, one of them able to
\* mark it again.
C25_Witness ==
    /\ ~poisoned
    /\ \E t \in Teams : \E k \in 1..Len(Team(t).messages) : \E m \in MemberIds :
          /\ Len(Team(t).messages[k].read_by) = 2
          /\ Contains(Team(t).messages[k].read_by, m)
          /\ mark_message_read(state, t, m, Team(t).messages[k].id).ok

\* the store r.st is the current store with team t replaced by `team`
OnlyTeamBecomes(r, t, team) ==
    /\ DOMAIN r.st.teams = Teams
    /\ r.st.teams[t] = team
    /\ \A o \in Teams \ {t} : r.st.teams[o] = Team(o)
    /\ r.st.sessions = state.sessions
    /\ r.st.active_session = state.active_session

\* C26: create_team fails on an id that is a key of the teams mapping and
\* leaves the existing team untouched; cleanup_team removes exactly the named
\* team and fails on an unknown id; set_team_mode, set_delegation_only and
\* set_recovery_policy fail only on an unknown team and otherwise change only
\* the field they set, no task status and no assignee.
C26_TeamAdministration ==
    ~poisoned =>
        \A t \in TeamIds :
            /\ \A mode \in TeamDisplayModes, d \in BOOLEAN :
                  LET r == create_team(state, t, mode, d)
                  IN  /\ r.ok <=> ~HasTeam(state, t)
                      /\ ~r.ok => r.st = state /\ r.err = "team already exists"
                      /\ r.ok => /\ DOMAIN r.st.teams = Teams \cup {t}
                                 /\ \A o \in Teams : r.st.teams[o] = Team(o)
                                 /\ r.st.teams[t].members = <<>>
                                 /\ r.st.teams[t].tasks = <<>>
                                 /\ r.st.teams[t].messages = <<>>
                                 /\ r.st.teams[t].mode = mode
                                 /\ r.st.teams[t].delegation_only = d
            /\ LET r == cleanup_team(state, t)
               IN  /\ r.ok <=> HasTeam(state, t)
                   /\ ~r.ok => r.st = state /\ r.err = "unknown team"
                   /\ r.ok => /\ DOMAIN r.st.teams = Teams \ {t}
                              /\ \A o \in Teams \ {t} : r.st.teams[o] = Team(o)
                              /\ r.st.sessions = state.sessions
                              /\ r.st.active_session = state.active_session
            /\ \A mode \in TeamDisplayModes :
                  LET r == set_team_mode(state, t, mode)
                  IN  /\ r.ok <=> HasTeam(state, t)
                      /\ ~r.ok => r.st = state /\ r.err = "unknown team"
                      /\ r.ok => OnlyTeamBecomes(r, t, [Team(t) EXCEPT !.mode = mode])
            /\ \A d \in BOOLEAN :
                  LET r == set_delegation_only(state, t, d)
                  IN  /\ r.ok <=> HasTeam(state, t)
                      /\ ~r.ok => r.st = state /\ r.err = "unknown team"
                      /\ r.ok => OnlyTeamBecomes(r, t, [Team(t) EXCEPT !.delegation_only = d])
            /\ \A policy \in RecoveryPolicies :
                  LET r == set_recovery_policy(state, t, policy)
                  IN  /\ r.ok <=> HasTeam(state, t)
                      /\ ~r.ok => r.st = state /\ r.err = "unknown team"
                      /\ r.ok => OnlyTeamBecomes(r, t,
                                     [Team(t) EXCEPT !.recovery_policy = policy])

\* C26 witness: a team under the manual policy with a task in progress and a
\* blocked task; creating it again is refused, the setters and the cleanup
\* act on it.
C26_Witness ==
    /\ ~poisoned
    /\ \E t \in Teams : \E i, j \in TaskIdx(Team(t)) :
          /\ Team(t).recovery_policy = "manual"
          /\ Team(t).tasks[i].status = "in_progress"
          /\ Team(t).tasks[j].status = "blocked"
          /\ create_team(state, t, "auto", FALSE).err = "team already exists"
          /\ set_recovery_policy(state, t, "auto_reassign").st # state
          /\ cleanup_team(state, t).st.teams = [k \in {} |-> None]

\* one session named default, which is the active one, and no teams
FreshStore(s) ==
    /\ s.sessions = {"default"}
    /\ s.active_session = Some("default")
    /\ DOMAIN s.teams = {}

\* a cost that is not a number is written in the document
HasNullCost(doc) ==
    \E k \in DOMAIN doc.teams :
        \/ \E i \in 1..Len(doc.teams[k].members) : doc.teams[k].members[i].cost_usd = <<"null">>
        \/ \E i \in 1..Len(doc.teams[k].tasks) : doc.teams[k].tasks[i].cost_usd = <<"null">>

\* there is no file to read, or its content is not a document of the store
Unloadable(f) == f = None \/ ~f[1].json \/ HasNullCost(f[1])

\* C27: load_or_default always returns a store: for a file that is missing,
\* unreadable or does not parse it is the default store (one session named
\* default, active, no teams), the same for a missing and for a corrupt
\* file; for a file that parses it is the store written in the file.
C27_LoadOrDefault ==
    /\ \A f \in InitialFiles \cup {file, Some(Serialize(state))} :
          LET s == load_or_default(f)
          IN  /\ DOMAIN s = {"sessions", "active_session", "teams"}
              /\ Unloadable(f) => FreshStore(s)
              /\ ~Unloadable(f) => Serialize(s) = f[1]
    /\ load_or_default(None) = load_or_default(Some(CorruptDocument))

\* C27 witness: the server has started on a state file that does not parse
\* and could not rewrite it: it serves the default store, to which a client
\* has added a team.
C27_Witness ==
    /\ file \in {Some(CorruptDocument), Some(Serialize(OverspentSeedState))}
    /\ HasTeam(state, "t1")
    /\ state.teams["t1"].members = <<>>
    /\ FreshStore([state EXCEPT !.teams = [k \in {} |-> None]])

\* every id of the dependency list is the id of a task of team t
DepsExist(t, deps) == \A d \in 1..Len(deps) : HasTask(state, t, deps[d])

\* every id of the dependency list is the id of a done task of team t
DepsDone(t, deps) ==
    \A d \in 1..Len(deps) :
        HasTask(state, t, deps[d]) /\ TaskById(state, t, deps[d]).status = "done"

\* the task add_task(t, deps, files) returned was appended to team t with a
\* fresh id, no assignee, zero usage and the given status
CreatedAs(r, t, deps, status) ==
    LET old == Team(t)
        new == r.st.teams[t]
        task == new.tasks[Len(new.tasks)]
    IN  /\ r.ok
        /\ Len(new.tasks) = Len(old.tasks) + 1
        /\ r.ret = Some(task)
        /\ task.id \notin Ids(old.tasks)
        /\ task.id = old.next_task_id
        /\ task.assignee = None
        /\ Counters(task) = <<0, 0, 0>>
        /\ task.deps = deps
        /\ task.status = status

\* C28 as stated: add_task creates the task with a fresh id, no assignee and
\* zero usage, Pending when every declared dependency already exists and is
\* Done and Blocked otherwise, also when a declared dependency does not
\* exist yet; a task without dependencies is created Pending.
C28_CreatedWhateverTheDependencies ==
    ~poisoned =>
        \A t \in Teams, deps \in AllDeps, files \in AllFiles :
            CreatedAs(add_task(state, t, deps, files), t, deps,
                      IF DepsDone(t, deps) THEN "pending" ELSE "blocked")

\* C28 as amended: add_task fails with the unknown-dependency error and
\* creates no task when a declared dependency is not a task of the team;
\* otherwise it creates the task with a fresh id, no assignee and zero
\* usage, Pending when every declared dependency is Done and Blocked when
\* one of them is not Done; a task without dependencies is created Pending.
C28_CreatedPendingOrBlocked ==
    ~poisoned =>
        \A t \in Teams, deps \in AllDeps, files \in AllFiles :
            LET r == add_task(state, t, deps, files)
            IN  /\ r.ok <=> DepsExist(t, deps)
                /\ ~r.ok => /\ r.st = state
                            /\ r.err = "unknown dependency task id"
                /\ r.ok => CreatedAs(r, t, deps,
                                     IF DepsDone(t, deps) THEN "pending" ELSE "blocked")
                /\ deps = <<>> => CreatedAs(r, t, deps, "pending")

\* C28 witness: task 0 is done and task 1 is not, and a third task can be
\* added: depending on task 0 it is created pending, depending on both
\* blocked, and depending on a task that does not exist it is refused.
C28_Witness ==
    /\ ~poisoned
    /\ \E t \in Teams :
          /\ HasTask(state, t, 0) /\ TaskById(state, t, 0).status = "done"
          /\ HasTask(state, t, 1) /\ TaskById(state, t, 1).status = "pending"
          /\ Team(t).next_task_id < MaxTasks
          /\ CreatedAs(add_task(state, t, <<0>>, <<>>), t, <<0>>, "pending")
          /\ CreatedAs(add_task(state, t, <<0, 1>>, <<>>), t, <<0, 1>>, "blocked")
          /\ ~add_task(state, t, <<MaxTasks>>, <<>>).ok

\* member m of team t has submitted a plan: latest_plan is written by
\* submit_plan alone and never cleared
HasSubmittedPlan(t, m) == MemberById(state, t, m).latest_plan # None

\* member m of team t can claim a task now, by claim_task or by
\* auto_claim_next_task
CanClaim(t, m) ==
    \/ \E k \in TaskIds : claim_task(state, t, m, k).ok
    \/ auto_claim_next_task(state, t, m).ret # None

\* C29: a member created with require_plan_approval starts with plan status
\* Planning, one created without it starts Approved; a member with
\* require_plan_approval claims a task, by claim_task or auto_claim_next_task,
\* only after it has submitted a plan and that plan has been set to Approved
\* since, with no later submit_plan or set_plan_status to another value.
C29_ClaimOnlyAfterSubmittedPlanApproved ==
    ~poisoned =>
        \A t \in Teams :
            /\ \A kind \in MemberKinds :
                  LET r == add_member(state, t, kind[1], kind[2])
                  IN  r.ok /\ r.ret[1].plan_status =
                                 IF kind[1] THEN "planning" ELSE "approved"
            /\ \A i \in MemberIdx(Team(t)) :
                  LET member == Team(t).members[i]
                  IN  (member.require_plan_approval /\ CanClaim(t, member.id))
                          => /\ HasSubmittedPlan(t, member.id)
                             /\ member.plan_status = "approved"

\* C30: in a delegation-only team no task in progress is assigned to a lead
\* member, and a lead member cannot complete a task, whatever the order of
\* set_delegation_only, claim_task and complete_task before.
C30_LeadsDoNotExecute ==
    ~poisoned =>
        \A t \in Teams :
            Team(t).delegation_only =>
                /\ \A i \in TaskIdx(Team(t)) : \A j \in MemberIdx(Team(t)) :
                      (/\ Team(t).tasks[i].status = "in_progress"
                       /\ Team(t).tasks[i].assignee = Some(Team(t).members[j].id))
                          => ~Team(t).members[j].is_lead
                /\ \A j \in MemberIdx(Team(t)) :
                      Team(t).members[j].is_lead =>
                          \A k \in TaskIds, u \in AllUsages, oc \in BOOLEAN :
                              ~complete_task(state, t, Team(t).members[j].id, k,
                                             u[1], u[2], u[3], oc).ok

\* C31: in every reachable state the assignee of a task, when there is one,
\* is the id of a member in the member list of the team, also after
\* prune_terminated has deleted members.
C31_AssigneeIsMember ==
    ~poisoned =>
        \A t \in Teams : \A i \in TaskIdx(Team(t)) :
            Team(t).tasks[i].assignee # None
                => HasMember(state, t, Team(t).tasks[i].assignee[1])

\* C32, in every state: a task in progress has an assignee, which is an
\* existing active member; a pending or blocked task has none; a done task
\* has one.
C32_StatusAgreesWithAssignee ==
    ~poisoned =>
        \A t \in Teams : \A i \in TaskIdx(Team(t)) :
            LET task == Team(t).tasks[i]
            IN  /\ task.status = "in_progress"
                      => /\ task.assignee # None
                         /\ HasMember(state, t, task.assignee[1])
                         /\ MemberById(state, t, task.assignee[1]).status = "active"
                /\ task.status \in {"pending", "blocked"} => task.assignee = None
                /\ task.status = "done" => task.assignee # None

\* C32, in every step: the assignee of a task that becomes done is the
\* member whose complete_task the step is, and stays so afterwards.
C32_DoneKeepsCompleter ==
    ~poisoned' =>
        \A t \in Teams \cap DOMAIN state'.teams : \A i \in TaskIdx(Team(t)) :
            LET old == Team(t).tasks[i]
                new == state'.teams[t].tasks[i]
            IN  /\ (old.status # "done" /\ new.status = "done")
                      => \E m \in MemberIds, u \in AllUsages, oc \in BOOLEAN :
                            LET r == complete_task(state, t, m, old.id, u[1], u[2], u[3], oc)
                            IN  r.ok /\ state' = r.st /\ new.assignee = Some(m)
                /\ old.status = "done" => new.assignee = old.assignee

\* C32: status and assignee of a task agree: InProgress only with an
\* assignee that is an existing Active member, Pending or Blocked without
\* assignee, Done with the assignee that completed it.
C32_StatusAndAssignee == [](C32_StatusAgreesWithAssignee) /\ [][C32_DoneKeepsCompleter]_vars

\* C32 witness: a done task whose completer has been removed, a task in
\* progress with another member, and a task without assignee that waits
\* for it.
C32_Witness ==
    /\ ~poisoned
    /\ \E t \in Teams : \E i, j, k \in TaskIdx(Team(t)) :
          /\ Team(t).tasks[i].status = "done"
          /\ \/ ~HasMember(state, t, Team(t).tasks[i].assignee[1])
             \/ MemberById(state, t, Team(t).tasks[i].assignee[1]).status = "terminated"
          /\ Team(t).tasks[j].status = "in_progress"
          /\ Team(t).tasks[k].status = "blocked"

\* C33, in every state: a handler that waits for the next line, or has seen
\* the end of the stream, has written one response for each line it read;
\* no handler has more responses than lines.
C33_AnsweredBeforeNextRead ==
    \A c \in Conns :
        /\ Len(conn[c].got) <= conn[c].sent
        /\ conn[c].pc \in {"read", "closed"} => Len(conn[c].got) = conn[c].sent
        /\ conn[c].pc = "read" => conn[c].req = None

\* C33, in every step: the responses of a connection change only by one
\* response being appended, which answers the line the handler read last,
\* and no other connection receives it.
C33_ResponseStep ==
    \A c \in Conns :
        conn'[c].got # conn[c].got =>
            /\ conn[c].req # None
            /\ Len(conn'[c].got) = Len(conn[c].got) + 1
            /\ SubSeq(conn'[c].got, 1, Len(conn[c].got)) = conn[c].got
            /\ conn'[c].got[Len(conn'[c].got)].req = conn[c].req[1]
            /\ conn'[c].pc = "read"
            /\ \A o \in Conns \ {c} : conn'[o].got = conn[o].got

\* C33, in every state: a handler has returned, closing its connection, only
\* at the end of the stream or on an I/O error of its connection.
C33_ClosedOnEofOrIoError ==
    \A c \in Conns : conn[c].pc \notin {"lock_error", "panicked"}

\* C33: every completed request gets exactly one response line, on its own
\* connection and in the order the lines were received, the response being
\* written before the next line is read; the server closes a connection only
\* on end-of-stream or on an I/O error of that connection.
C33_OneResponsePerRequest ==
    /\ [](C33_AnsweredBeforeNextRead)
    /\ [][C33_ResponseStep]_vars
    /\ [](C33_ClosedOnEofOrIoError)

\* the response carries the session names and the teams of the store st
CarriesSnapshotOf(resp, st) ==
    /\ resp.sessions = st.sessions
    /\ resp.teams = {st.teams[k] : k \in DOMAIN st.teams}

\* C34: the sessions and the teams carried by the response to a parsed
\* request are those of the store right after the request's own operation
\* and before the request of any other connection is applied, in full, also
\* when the operation failed or changed nothing.
C34_ResponseSnapshot ==
    \A c \in Conns :
        conn[c].pc \in {"write", "stalled"} =>
            /\ conn[c].resp # None
            /\ CarriesSnapshotOf(conn[c].resp[1], applied)
            /\ CarriesSnapshotOf(conn[c].resp[1], state)

\* C34 witness: a handler is about to write the response of an operation
\* that failed, after the other connection's request has changed the store
\* and been answered: the response carries the team as that request left it.
C34_Witness ==
    \E c \in Conns : \E o \in Conns \ {c} :
        /\ conn[c].pc = "write"
        /\ ~conn[c].resp[1].ok
        /\ conn[c].resp[1].teams # {}
        /\ \E i \in 1..Len(conn[o].got) :
              conn[o].got[i].ok /\ conn[o].got[i].req.type = "team_claim_task"
        /\ \E team \in conn[c].resp[1].teams :
              \E i \in 1..Len(team.tasks) : team.tasks[i].status = "in_progress"

\* the team with the statuses of its tasks replaced by those of f
WithStatuses(team, f) ==
    [team EXCEPT !.tasks = [i \in 1..Len(team.tasks) |->
                               [team.tasks[i] EXCEPT !.status = f[i]]]]

\* the team with the dependencies of task i replaced by the single id d
WithDependency(team, i, d) == [team EXCEPT !.tasks[i].deps = <<d>>]

\* the team under every assignment of statuses, and the team as it is, all
\* pending and all blocked with the dependencies of one task redirected to
\* any existing id (its own and those of later tasks included): all their
\* dependency ids exist
TeamVariants(team) ==
    LET relabelled == {WithStatuses(team, f) :
                          f \in [1..Len(team.tasks) -> TaskStatuses]}
        open == {team} \cup {WithStatuses(team, [i \in 1..Len(team.tasks) |-> s]) :
                                s \in {"pending", "blocked"}}
    IN  relabelled \cup
        {WithDependency(v, i, team.tasks[j].id) :
            v \in open, i \in 1..Len(team.tasks), j \in 1..Len(team.tasks)}

\* refreshing twice gives what refreshing once gives
RefreshIdempotent(team) ==
    LET once == refresh_task_blocking(team)
    IN  /\ once.ok
        /\ refresh_task_blocking(once.team) = once

C35_Idempotent == \A t \in Teams : \A v \in TeamVariants(Team(t)) : RefreshIdempotent(v)

C35_NoOpWhenReachable ==
    ~poisoned => \A t \in Teams : refresh_task_blocking(Team(t)) = [ok |-> TRUE, team |-> Team(t)]

C35_FailedClaimChangesNothing ==
    ~poisoned => \A t \in Teams : \A call \in ClaimCalls(t) :
                    ~call.ok /\ ~call.panic => call.st = state

\* C35: refresh_task_blocking applied twice to a team whose dependency ids
\* all exist gives the same team as applied once; applied to a state reached
\* by completed store operations it changes nothing, so the refresh that
\* claim_task and auto_claim_next_task run before their checks leaves a
\* reachable state as it is (a rejected claim returns the store unchanged).
C35_RefreshIsIdempotent ==
    /\ C35_Idempotent
    /\ C35_NoOpWhenReachable
    /\ C35_FailedClaimChangesNothing

\* C35 witness: a team holds a done task, a task in progress, and a blocked
\* task, the statuses the refresh has to leave alone or to keep.
C35_Witness ==
    /\ ~poisoned
    /\ \E t \in Teams :
          /\ \E i \in TaskIdx(Team(t)) : Team(t).tasks[i].status = "done"
          /\ \E i \in TaskIdx(Team(t)) : Team(t).tasks[i].status = "in_progress"
          /\ \E i \in TaskIdx(Team(t)) : Team(t).tasks[i].status = "blocked"
          /\ \E call \in ClaimCalls(t) : ~call.ok /\ ~call.panic

\* the sum of the token counters of the first n tasks, as a mathematical integer
RECURSIVE TrueTokens(_, _)
TrueTokens(tasks, n) ==
    IF n = 0 THEN <<0, 0>>
    ELSE LET s == TrueTokens(tasks, n - 1)
         IN  <<s[1] + tasks[n].input_tokens, s[2] + tasks[n].output_tokens>>

\* every completion that passes the checks returns, and leaves in the task
\* and the member the old token counters plus the supplied deltas
C36_CompletionAddsExactly ==
    \A t \in Teams, m \in MemberIds, k \in TaskIds, u \in AllUsages,
       overflow_checks \in BOOLEAN :
        LET r == complete_task(state, t, m, k, u[1], u[2], u[3], overflow_checks)
        IN  /\ ~r.panic
            /\ r.ok =>
                  /\ TaskById(r.st, t, k).input_tokens =
                        TaskById(state, t, k).input_tokens + u[1]
                  /\ TaskById(r.st, t, k).output_tokens =
                        TaskById(state, t, k).output_tokens + u[2]
                  /\ MemberById(r.st, t, m).input_tokens =
                        MemberById(state, t, m).input_tokens + u[1]
                  /\ MemberById(r.st, t, m).output_tokens =
                        MemberById(state, t, m).output_tokens + u[2]
                  /\ MemberById(r.st, t, m).input_tokens >=
                        MemberById(state, t, m).input_tokens
                  /\ MemberById(r.st, t, m).output_tokens >=
                        MemberById(state, t, m).output_tokens

\* team_usage returns, with the sums of the task counters
C36_UsageIsTrueSum ==
    \A t \in Teams : \A overflow_checks \in BOOLEAN :
        LET r == team_usage(state, t, overflow_checks)
            s == TrueTokens(Team(t).tasks, Len(Team(t).tasks))
        IN  /\ r.ok
            /\ r.ret.input_tokens = s[1]
            /\ r.ret.output_tokens = s[2]

\* C36: the token counters are u64 and complete_task adds the supplied deltas
\* without wrap-around and without aborting, for all deltas: after a
\* successful completion the counters of the member and of the task are the
\* old values plus the deltas, a member's counter never decreases, and
\* team_usage is the true sum of the task counters.
C36_CountersNeverWrap ==
    ~poisoned => C36_CompletionAddsExactly /\ C36_UsageIsTrueSum

\* the same for the deltas whose sums with the member's counters fit in 64
\* bits: this much the code does
C36_ExactWhileInRange ==
    ~poisoned =>
        \A t \in Teams, m \in MemberIds, k \in TaskIds, u \in AllUsages,
           overflow_checks \in BOOLEAN :
            LET r == complete_task(state, t, m, k, u[1], u[2], u[3], overflow_checks)
                fits == /\ HasMember(state, t, m)
                        /\ MemberById(state, t, m).input_tokens + u[1] <= U64Max
                        /\ MemberById(state, t, m).output_tokens + u[2] <= U64Max
            IN  fits =>
                  /\ ~r.panic
                  /\ r.ok =>
                        /\ Counters(TaskById(r.st, t, k))[1] =
                              TaskById(state, t, k).input_tokens + u[1]
                        /\ Counters(MemberById(r.st, t, m))[1] =
                              MemberById(state, t, m).input_tokens + u[1]
                        /\ Counters(MemberById(r.st, t, m))[2] =
                              MemberById(state, t, m).output_tokens + u[2]

\* the ids a task reaches by following dependencies at most n times
RECURSIVE DependsOnWithin(_, _, _)
DependsOnWithin(team, id, n) ==
    IF n = 0 THEN {}
    ELSE LET direct == UNION {{team.tasks[i].deps[k] : k \in 1..Len(team.tasks[i].deps)} :
                                 i \in {j \in 1..Len(team.tasks) : team.tasks[j].id = id}}
         IN  direct \cup UNION {DependsOnWithin(team, d, n - 1) : d \in direct}

C37_DependenciesAreEarlierTasks ==
    \A t \in Teams : \A i \in TaskIdx(Team(t)) :
        /\ \A k \in 1..Len(Team(t).tasks[i].deps) :
              /\ HasTask(state, t, Team(t).tasks[i].deps[k])
              /\ Team(t).tasks[i].deps[k] < Team(t).tasks[i].id
              /\ \E j \in 1..(i - 1) : Team(t).tasks[j].id = Team(t).tasks[i].deps[k]
        /\ Team(t).tasks[i].id \notin
              DependsOnWithin(Team(t), Team(t).tasks[i].id, Len(Team(t).tasks))

C37_RefreshNeverFails ==
    \A t \in Teams :
        /\ refresh_task_blocking(Team(t)).ok
        /\ \A m \in MemberIds :
              /\ auto_claim_next_task(state, t, m).err # "missing dependency"
              /\ \A k \in TaskIds :
                    claim_task(state, t, m, k).err # "missing dependency"

\* a step deletes no task from a team that stays in the store
C37_TasksAreKept ==
    \A t \in Teams :
        t \in DOMAIN state'.teams => Ids(Team(t).tasks) \subseteq Ids(state'.teams[t].tasks)

\* C37: every dependency id of a task is the id of a task of the same team
\* created earlier, hence strictly smaller than the task's own id; the
\* dependency relation is acyclic and no task depends on itself; tasks are
\* never deleted from a team, so refresh_task_blocking never fails with a
\* missing-dependency error in a reachable state.
C37_DependenciesWellFounded ==
    /\ [](C37_DependenciesAreEarlierTasks /\ C37_RefreshNeverFails)
    /\ [][C37_TasksAreKept]_vars

\* C37 witness: a task was created with two dependencies, and a later task
\* depends on an earlier one that is already done.
C37_Witness ==
    \E t \in Teams : \E i, j \in TaskIdx(Team(t)) :
        /\ Len(Team(t).tasks[i].deps) = 2
        /\ Team(t).tasks[j].deps # <<>>
        /\ TaskById(state, t, Team(t).tasks[j].deps[1]).status = "done"

\* member m of team t is Active and passes the delegation-only and plan gates
Eligible(t, m) ==
    /\ t \in Teams
    /\ HasMember(state, t, m)
    /\ MemberById(state, t, m).status = "active"
    /\ ~(Team(t).delegation_only /\ MemberById(state, t, m).is_lead)
    /\ ~(MemberById(state, t, m).require_plan_approval
         /\ MemberById(state, t, m).plan_status # "approved")

\* there is no reachable state in which a task is not done, no task is in
\* progress and auto_claim_next_task of an eligible member claims nothing
C38_NeverStuck ==
    ~poisoned =>
        \A t \in Teams : \A m \in MemberIds :
            (/\ Eligible(t, m)
             /\ \E i \in TaskIdx(Team(t)) : Team(t).tasks[i].status # "done"
             /\ \A i \in TaskIdx(Team(t)) : Team(t).tasks[i].status # "in_progress")
            => LET r == auto_claim_next_task(state, t, m)
               IN  /\ r.ok
                   /\ r.ret # None
                   /\ TaskById(r.st, t, r.ret[1]).status = "in_progress"
                   /\ TaskById(r.st, t, r.ret[1]).assignee = Some(m)

\* task k of team t is in progress with an assignee other than m
HeldByOther(t, m, k) ==
    /\ t \in Teams
    /\ HasTask(state, t, k)
    /\ TaskById(state, t, k).status = "in_progress"
    /\ TaskById(state, t, k).assignee # Some(m)

TaskIsDone(t, k) ==
    /\ t \in Teams
    /\ HasTask(state, t, k)
    /\ TaskById(state, t, k).status = "done"

\* with member m of team t eligible throughout, no call aborting, and no
\* other member holding a task for ever, every task of the team becomes done
C38_EveryTaskGetsDone ==
    \A t \in WorkProfile.teams : \A m \in Workers :
        (/\ [](Eligible(t, m) /\ ~poisoned)
         /\ \A h \in TaskIds : []<>(~HeldByOther(t, m, h)))
        => \A k \in TaskIds : (t \in Teams /\ HasTask(state, t, k)) ~> TaskIsDone(t, k)

C39_ActiveSessionExists ==
    /\ state.active_session # None
    /\ state.active_session[1] \in state.sessions

\* a handler holding the reply to attach-session{name} with ok = true and the
\* message that the active session is name has made name the active session
C39_AttachReplyIsTruthful ==
    \A c \in Conns :
        (/\ conn[c].pc \in {"save", "write", "stalled"}
         /\ conn[c].req[1].type = "attach_session"
         /\ conn[c].resp[1].ok
         /\ conn[c].resp[1].message = "active session")
        => state.active_session = Some(conn[c].req[1].name)

\* create-session with the name of an existing session changes nothing
C39_CreateExistingChangesNothing ==
    \A n \in state.sessions :
        /\ create_session(state, n) = state
        /\ Dispatch(state, [type |-> "create_session", name |-> n], FALSE).st = state

\* C39: the active session always names an existing session, and the reply
\* to attach-session{name} is truthful: when it has ok = true with the
\* message that the active session is name, the store's active_session is
\* name after the request; create-session with an existing name changes
\* neither the sessions nor the active session.
C39_SessionsAndAttachReply ==
    ~poisoned =>
        /\ C39_ActiveSessionExists
        /\ C39_AttachReplyIsTruthful
        /\ C39_CreateExistingChangesNothing

\* what the code does: the rest of the claim, and attach-session of an
\* existing session, which makes it the active one
C39_TruthfulForExistingSessions ==
    ~poisoned =>
        /\ C39_ActiveSessionExists
        /\ C39_CreateExistingChangesNothing
        /\ \A n \in state.sessions :
              LET r == Dispatch(state, [type |-> "attach_session", name |-> n], FALSE)
              IN  r.resp.ok /\ r.st.active_session = Some(n)
        /\ \A c \in Conns :
              (conn[c].pc \in {"save", "write", "stalled"}
                 /\ conn[c].req[1].type = "attach_session"
                 /\ conn[c].req[1].name \notin state.sessions)
              => conn[c].resp[1].ok

====
